---- MODULE Spec2Model ----
(***************************************************************************)
(* ViewSarn: HTML -> PDF/PNG render service (server.js, src/render.js).    *)
(*                                                                         *)
(* JavaScript values are tagged records, strings are sequences of          *)
(* one-character strings, and numbers are exact rationals n/d (d > 0,      *)
(* lowest terms); NaN is a value of its own.  IEEE rounding is not         *)
(* modelled: every quotient is exact.                                      *)
(***************************************************************************)
EXTENDS Integers, Sequences, FiniteSets, TLC

\* ------------------------------------------------------------------------
\* JavaScript values
\* ------------------------------------------------------------------------

\* The helpers below are functions, not operators: a function's argument is
\* evaluated once, where it is applied.

JsValue == [t : STRING, n : Int, d : Int, s : Seq(STRING)]

GCD[a \in Nat, b \in Nat] == IF b = 0 THEN a ELSE GCD[b, a % b]

Abs(x) == IF x < 0 THEN -x ELSE x

\* the number n/d in lowest terms with a positive denominator
Num[n \in Int, d \in Int] ==
    [t |-> "num",
     n |-> (IF d < 0 THEN -1 ELSE 1) * (n \div GCD[Abs(n), Abs(d)]),
     d |-> (IF d < 0 THEN -1 ELSE 1) * (d \div GCD[Abs(n), Abs(d)]),
     s |-> <<>>]

NumInt(n) == [t |-> "num", n |-> n, d |-> 1, s |-> <<>>]
NaN       == [t |-> "nan", n |-> 0, d |-> 1, s |-> <<>>]
Null      == [t |-> "null", n |-> 0, d |-> 1, s |-> <<>>]
Undef     == [t |-> "undefined", n |-> 0, d |-> 1, s |-> <<>>]
Bool(b)   == [t |-> "bool", n |-> IF b THEN 1 ELSE 0, d |-> 1, s |-> <<>>]
Str(s)    == [t |-> "str", n |-> 0, d |-> 1, s |-> s]

\* what a throwing expression evaluates to
TypeError == [t |-> "TypeError", n |-> 0, d |-> 1, s |-> <<>>]

\* ToBoolean: what `if (v)`, `!v`, `!!v` and `v || w` test
Truthy[v \in JsValue] ==
    CASE v.t = "num"  -> v.n # 0
      [] v.t = "bool" -> v.n = 1
      [] v.t = "str"  -> v.s # <<>>
      [] OTHER        -> FALSE

\* v || w
OrElse[v \in JsValue, w \in JsValue] == IF Truthy[v] THEN v ELSE w

\* an/ad < bn/bd for ad, bd > 0, by comparing the integer parts and then the
\* reciprocals of the fractional parts: no product is formed
LtFrac[an \in Int, ad \in Int, bn \in Int, bd \in Int] ==
    IF an \div ad # bn \div bd THEN an \div ad < bn \div bd
    ELSE IF bn % bd = 0 THEN FALSE
    ELSE IF an % ad = 0 THEN TRUE
    ELSE LtFrac[bd, bn % bd, ad, an % ad]

\* a < b and a <= b on numbers (never NaN here)
Lt[a \in JsValue, b \in JsValue] == LtFrac[a.n, a.d, b.n, b.d]

Leq[a \in JsValue, b \in JsValue] == ~Lt[b, a]

\* arithmetic on numbers; NaN is contagious
Sub[a \in JsValue, b \in JsValue] ==
    IF a.t = "nan" \/ b.t = "nan" THEN NaN
    ELSE Num[a.n * b.d - b.n * a.d, a.d * b.d]

\* a * b, cancelling across the two fractions before multiplying
Mul[a \in JsValue, b \in JsValue] ==
    IF a.t = "nan" \/ b.t = "nan" THEN NaN
    ELSE Num[(a.n \div GCD[Abs(a.n), b.d]) * (b.n \div GCD[Abs(b.n), a.d]),
             (a.d \div GCD[Abs(b.n), a.d]) * (b.d \div GCD[Abs(a.n), b.d])]

\* a / b for b # 0
Div[a \in JsValue, b \in JsValue] ==
    IF a.t = "nan" \/ b.t = "nan" THEN NaN
    ELSE Mul[a, Num[b.d, b.n]]

\* Math.max(a, b), Math.min(a, b) on numbers
MathMax[a \in JsValue, b \in JsValue] == IF Lt[a, b] THEN b ELSE a
MathMin[a \in JsValue, b \in JsValue] == IF Lt[b, a] THEN b ELSE a

\* Math.max(i, j) on integers
IntMax(i, j) == IF i < j THEN j ELSE i

\* Math.ceil of a number, as an integer
MathCeil[a \in JsValue] == -((-a.n) \div a.d)

\* ------------------------------------------------------------------------
\* Strings
\* ------------------------------------------------------------------------

Digits == {"0", "1", "2", "3", "4", "5", "6", "7", "8", "9"}

DigitVal[c \in Digits] ==
    CASE c = "0" -> 0 [] c = "1" -> 1 [] c = "2" -> 2 [] c = "3" -> 3
      [] c = "4" -> 4 [] c = "5" -> 5 [] c = "6" -> 6 [] c = "7" -> 7
      [] c = "8" -> 8 [] c = "9" -> 9

SkipWs[s \in Seq(STRING)] == IF s # <<>> /\ Head(s) = " " THEN SkipWs[Tail(s)] ELSE s

DropTrailingWs[s \in Seq(STRING)] ==
    IF s # <<>> /\ s[Len(s)] = " " THEN DropTrailingWs[SubSeq(s, 1, Len(s) - 1)] ELSE s

\* String.prototype.trim
Trim[s \in Seq(STRING)] == DropTrailingWs[SkipWs[s]]

DigitsPrefix[s \in Seq(STRING)] ==
    IF s # <<>> /\ Head(s) \in Digits THEN <<Head(s)>> \o DigitsPrefix[Tail(s)] ELSE <<>>

DigitsValue[ds \in Seq(STRING)] ==
    IF ds = <<>> THEN 0
    ELSE 10 * DigitsValue[SubSeq(ds, 1, Len(ds) - 1)] + DigitVal[ds[Len(ds)]]

Pow10[k \in Nat] == IF k = 0 THEN 1 ELSE 10 * Pow10[k - 1]

\* a literal's value from its parts: sign, integer digits, fraction digits
DecimalValue[neg \in BOOLEAN, ip \in Seq(STRING), fp \in Seq(STRING)] ==
    Num[(IF neg THEN -1 ELSE 1) * (DigitsValue[ip] * Pow10[Len(fp)] + DigitsValue[fp]),
        Pow10[Len(fp)]]

\* the literal's parts once the sign is read: u is the text after the sign
DecimalParts[signed \in BOOLEAN, neg \in BOOLEAN, u \in Seq(STRING), ip \in Seq(STRING)] ==
    LET r   == SubSeq(u, Len(ip) + 1, Len(u))
        dot == r # <<>> /\ Head(r) = "."
        fp  == IF dot THEN DigitsPrefix[Tail(r)] ELSE <<>>
    IN  [ok   |-> ip # <<>> \/ fp # <<>>,
         used |-> (IF signed THEN 1 ELSE 0) + Len(ip)
                  + (IF dot /\ (ip # <<>> \/ fp # <<>>) THEN 1 + Len(fp) ELSE 0),
         val  |-> DecimalValue[neg, ip, fp]]

\* the decimal literal at the start of s: sign, integer digits, optional
\* fraction; `used` is the number of characters it takes, `ok` whether it
\* holds a digit at all
DecimalPrefix[s \in Seq(STRING)] ==
    IF s # <<>> /\ Head(s) \in {"-", "+"}
    THEN DecimalParts[TRUE, Head(s) = "-", Tail(s), DigitsPrefix[Tail(s)]]
    ELSE DecimalParts[FALSE, FALSE, s, DigitsPrefix[s]]

\* what DecimalPrefix reads
ParsedLiteral == [ok : BOOLEAN, used : Nat, val : JsValue]

\* the value of a literal read by DecimalPrefix, NaN when there is none
LiteralValue[p \in ParsedLiteral] == IF p.ok THEN p.val ELSE NaN

\* parseFloat(s) of a string: leading white space skipped, the longest
\* decimal literal read, the rest ignored; NaN when there is none
parseFloat[s \in Seq(STRING)] == LiteralValue[DecimalPrefix[SkipWs[s]]]

\* ToNumber of a trimmed string: 0 when empty, the literal when it is all of
\* the string, NaN otherwise
StringToNumber[w \in Seq(STRING)] ==
    IF w = <<>> THEN NumInt(0)
    ELSE IF DecimalPrefix[w].ok /\ DecimalPrefix[w].used = Len(w) THEN DecimalPrefix[w].val
    ELSE NaN

\* Number(v): ToNumber of a JSON value
Number[v \in JsValue] ==
    CASE v.t = "num"       -> v
      [] v.t = "nan"       -> NaN
      [] v.t = "null"      -> NumInt(0)
      [] v.t = "undefined" -> NaN
      [] v.t = "bool"      -> NumInt(v.n)
      [] v.t = "str"       -> StringToNumber[Trim[v.s]]

\* s.endsWith(suffix)
endsWith[s \in Seq(STRING), suffix \in Seq(STRING)] ==
    /\ Len(s) >= Len(suffix)
    /\ SubSeq(s, Len(s) - Len(suffix) + 1, Len(s)) = suffix

\* s.slice(0, -2)
sliceOffTwo[s \in Seq(STRING)] == SubSeq(s, 1, Len(s) - 2)

UpperOf[c \in STRING] ==
    CASE c = "a" -> "A" [] c = "b" -> "B" [] c = "c" -> "C" [] c = "d" -> "D"
      [] c = "e" -> "E" [] c = "g" -> "G" [] c = "i" -> "I" [] c = "l" -> "L"
      [] c = "m" -> "M" [] c = "n" -> "N" [] c = "p" -> "P" [] c = "r" -> "R"
      [] c = "s" -> "S" [] c = "t" -> "T" [] c = "w" -> "W" [] c = "y" -> "Y"
      [] OTHER   -> c

\* s.toUpperCase()
toUpperCase[s \in Seq(STRING)] == [i \in 1..Len(s) |-> UpperOf[s[i]]]

\* ------------------------------------------------------------------------
\* src/render.js: the fit computation
\* ------------------------------------------------------------------------

sA4        == <<"A", "4">>
sA5        == <<"A", "5">>
sLETTER    == <<"L", "E", "T", "T", "E", "R">>
sLEGAL     == <<"L", "E", "G", "A", "L">>
sPortrait  == <<"p", "o", "r", "t", "r", "a", "i", "t">>
sLandscape == <<"l", "a", "n", "d", "s", "c", "a", "p", "e">>
s10mm      == <<"1", "0", "m", "m">>

PAPER_SIZES == {sA4, sA5, sLETTER, sLEGAL}

\* 0.1 and 2, the ends of the scale range
ScaleMin == Num[1, 10]
ScaleMax == NumInt(2)

\* parseMarginToMm(m); m.endsWith is not a function unless m is a string
parseMarginToMm[m \in JsValue] ==
    IF ~Truthy[m] THEN NumInt(0)
    ELSE IF m.t = "num" THEN m
    ELSE IF m.t # "str" THEN TypeError
    ELSE IF endsWith[m.s, <<"m", "m">>] THEN parseFloat[sliceOffTwo[m.s]]
    ELSE IF endsWith[m.s, <<"c", "m">>] THEN Mul[parseFloat[sliceOffTwo[m.s]], NumInt(10)]
    ELSE IF endsWith[m.s, <<"i", "n">>] THEN Mul[parseFloat[sliceOffTwo[m.s]], Num[254, 10]]
    ELSE parseFloat[m.s]

\* clampScale(s)
clampScale[s \in JsValue] ==
    IF s.t \in {"null", "undefined"} THEN Null
    ELSE IF s.t = "nan" THEN Null
    ELSE IF Lt[s, ScaleMin] THEN ScaleMin
    ELSE IF Lt[ScaleMax, s] THEN ScaleMax
    ELSE s

\* const isPng = !!opts.png
isPng(opts) == Truthy[opts.png]

\* Number(opts.dpi) > 0 ? Number(opts.dpi) : 96
PositiveOr96[n \in JsValue] == IF n.t = "num" /\ Lt[NumInt(0), n] THEN n ELSE NumInt(96)

\* const dpi = opts.dpi && Number(opts.dpi) > 0 ? Number(opts.dpi) : 96
dpiOf(opts) == IF Truthy[opts.dpi] THEN PositiveOr96[Number[opts.dpi]] ELSE NumInt(96)

\* contextOptions: deviceScaleFactor dpi / 96 and a 1280x800 viewport for a
\* PNG, `viewport: null` (here 0x0) and no factor otherwise
contextOptions(opts) ==
    IF isPng(opts)
    THEN [deviceScaleFactor |-> Div[dpiOf(opts), NumInt(96)],
          viewport |-> [width |-> 1280, height |-> 800]]
    ELSE [deviceScaleFactor |-> Undef, viewport |-> [width |-> 0, height |-> 0]]

\* a wrong density: 72 / 25.4
pxPerMm72 == Num[720, 254]

\* const pxPerMm = 96 / 25.4
pxPerMm == Num[960, 254]

\* f.toUpperCase(), a TypeError unless f is a string
UpperCased[f \in JsValue] == IF f.t = "str" THEN Str(toUpperCase[f.s]) ELSE TypeError

\* the paper name compared as it was sent, not upper-cased
paperOfAsSent(opts) ==
    IF OrElse[opts.format, Str(sA4)].t = "str" THEN OrElse[opts.format, Str(sA4)] ELSE TypeError

\* const paper = (opts.format || 'A4').toUpperCase()
paperOf(opts) == UpperCased[OrElse[opts.format, Str(sA4)]]

\* const paperMm = (paper === 'A5') ? ... : { w: 210, h: 297 }
paperMm[paper \in JsValue] ==
    IF paper = Str(sA5) THEN [w |-> 148, h |-> 210]
    ELSE IF paper = Str(sLETTER) THEN [w |-> 216, h |-> 279]
    ELSE IF paper = Str(sLEGAL) THEN [w |-> 216, h |-> 356]
    ELSE [w |-> 210, h |-> 297]

isLandscape(opts) == opts.orientation = Str(sLandscape)

\* the width of the table whatever the orientation
paperWidthMmUnswapped(opts) == paperMm[paperOf(opts)].w

\* let paperWidthMm = paperMm.w, paperHeightMm = paperMm.h; swapped for landscape
paperWidthMm(opts) ==
    IF isLandscape(opts) THEN paperMm[paperOf(opts)].h ELSE paperMm[paperOf(opts)].w

paperHeightMm(opts) ==
    IF isLandscape(opts) THEN paperMm[paperOf(opts)].w ELSE paperMm[paperOf(opts)].h

\* m || 0, where m is what parseMarginToMm returned or threw
OrZero[m \in JsValue] == IF m = TypeError THEN TypeError ELSE OrElse[m, NumInt(0)]

\* a conversion that reads the number and ignores the unit
marginMmUnitless(opts) ==
    IF OrElse[opts.margin, Str(s10mm)].t = "str"
    THEN OrElse[parseFloat[OrElse[opts.margin, Str(s10mm)].s], NumInt(0)]
    ELSE OrZero[parseMarginToMm[OrElse[opts.margin, Str(s10mm)]]]

\* const marginMm = parseMarginToMm(opts.margin || '10mm') || 0
marginMm(opts) == OrZero[parseMarginToMm[OrElse[opts.margin, Str(s10mm)]]]

\* Math.max(1, (paperMm - 2 * marginMm) * pxPerMm)
availablePx[sideMm \in Int, margin \in JsValue] ==
    MathMax[NumInt(1), Mul[Sub[NumInt(sideMm), Mul[NumInt(2), margin]], pxPerMm]]

\* an available width without the floor of Math.max
availableWidthPxUnfloored(opts) ==
    Mul[Sub[NumInt(paperWidthMm(opts)), Mul[NumInt(2), marginMm(opts)]], pxPerMm]

availableWidthPx(opts)  == availablePx[paperWidthMm(opts), marginMm(opts)]
availableHeightPx(opts) == availablePx[paperHeightMm(opts), marginMm(opts)]

\* the synchronous code between the measurement and the emission throws
fitThrows(opts) == paperOf(opts) = TypeError \/ marginMm(opts) = TypeError

\* let scale = availableWidthPx / contentSize.width
widthFit(opts, contentSize) == Div[availableWidthPx(opts), NumInt(contentSize.width)]

\* const scaleH = availableHeightPx / contentSize.height
heightFit(opts, contentSize) == Div[availableHeightPx(opts), NumInt(contentSize.height)]

\* the single flag ignored
computedScaleWidthOnly(opts, contentSize) == widthFit(opts, contentSize)

\* Math.max where the code has Math.min
computedScaleMax(opts, contentSize) ==
    IF Truthy[opts.single]
    THEN MathMax[widthFit(opts, contentSize), heightFit(opts, contentSize)]
    ELSE widthFit(opts, contentSize)

\* scale after `if (opts.single) { ... scale = Math.min(scale, scaleH) }`
computedScale(opts, contentSize) ==
    IF Truthy[opts.single]
    THEN MathMin[widthFit(opts, contentSize), heightFit(opts, contentSize)]
    ELSE widthFit(opts, contentSize)

\* scale after `if (opts.scale) { const cl = clampScale(Number(opts.scale)); if (cl) scale = cl; }`
overriddenScale(opts, contentSize) ==
    IF Truthy[opts.scale]
    THEN OrElse[clampScale[Number[opts.scale]], computedScale(opts, contentSize)]
    ELSE computedScale(opts, contentSize)

\* if (scale < 0.1) scale = 0.1; if (scale > 2) scale = 2;
safetyClamp[s \in JsValue] ==
    IF Lt[s, ScaleMin] THEN ScaleMin
    ELSE IF Lt[ScaleMax, s] THEN ScaleMax
    ELSE s

\* the final clamp left out
finalScaleUnclamped(opts, contentSize) == overriddenScale(opts, contentSize)

\* scale as it stands at the emission
finalScale(opts, contentSize) == safetyClamp[overriddenScale(opts, contentSize)]

\* the values of the local `scale` after lines 86-90, 91-94 and 95-96
scaleSteps(opts, contentSize) ==
    [computed   |-> computedScale(opts, contentSize),
     overridden |-> overriddenScale(opts, contentSize),
     final      |-> finalScale(opts, contentSize)]

\* the result object's fields, and the options handed to the backend
resultOf(opts, contentSize) ==
    [scale       |-> finalScale(opts, contentSize),
     contentSize |-> contentSize,
     paper       |-> paperOf(opts),
     orientation |-> OrElse[opts.orientation, Str(sPortrait)]]

\* page.pdf(pdfOptions)
pdfOptions(opts, contentSize) ==
    [kind      |-> "pdf",
     scale     |-> finalScale(opts, contentSize),
     format    |-> IF paperOf(opts).s \in PAPER_SIZES THEN paperOf(opts).s ELSE sA4,
     landscape |-> isLandscape(opts),
     margin    |-> OrElse[opts.margin, Str(s10mm)],
     width     |-> 0,
     height    |-> 0,
     fullPage  |-> FALSE]

\* a capture sized by the content and taken full-page whatever the single flag
pngOptionsAlwaysFull(opts, contentSize) ==
    [kind      |-> "png",
     scale     |-> finalScale(opts, contentSize),
     format    |-> <<>>,
     landscape |-> FALSE,
     margin    |-> Undef,
     width     |-> IntMax(1, MathCeil[Mul[NumInt(contentSize.width), finalScale(opts, contentSize)]]),
     height    |-> IntMax(1, MathCeil[Mul[NumInt(contentSize.height), finalScale(opts, contentSize)]]),
     fullPage  |-> TRUE]

\* page.setViewportSize({ width: targetWidth, height: targetHeight }), then
\* page.screenshot({ type: 'png', fullPage: !!opts.single })
pngOptions(opts, contentSize) ==
    [kind      |-> "png",
     scale     |-> finalScale(opts, contentSize),
     format    |-> <<>>,
     landscape |-> FALSE,
     margin    |-> Undef,
     width     |-> IntMax(1, MathCeil[Mul[NumInt(contentSize.width), finalScale(opts, contentSize)]]),
     height    |-> IF Truthy[opts.single]
                   THEN IntMax(1, MathCeil[Mul[NumInt(contentSize.height), finalScale(opts, contentSize)]])
                   ELSE IntMax(1, MathCeil[availableHeightPx(opts)]),
     fullPage  |-> Truthy[opts.single]]

emissionOf(opts, contentSize) ==
    IF isPng(opts) THEN pngOptions(opts, contentSize) ELSE pdfOptions(opts, contentSize)

\* ------------------------------------------------------------------------
\* server.js: POST /convert
\* ------------------------------------------------------------------------

OptionKeys == {"format", "orientation", "margin", "single", "scale", "png", "dpi", "filename"}

\* the first argument of Object.assign in the handler
defaultOptions ==
    [format      |-> Str(sA4),
     orientation |-> Str(sPortrait),
     margin      |-> Str(s10mm),
     single      |-> Bool(FALSE),
     scale       |-> Null,
     png         |-> Bool(FALSE),
     dpi         |-> NumInt(96),
     filename    |-> Null]

\* Object.assign({...defaults}, body.options || {}); a key the body does not
\* carry is Undef in bodyOptions
convertOptions(bodyOptions) ==
    [k \in OptionKeys |-> IF bodyOptions[k] = Undef THEN defaultOptions[k] ELSE bodyOptions[k]]

\* a handler without the check of html
htmlRejectedNever(html) == FALSE

\* if (!html || typeof html !== 'string') return res.status(400)
htmlRejected(html) == ~Truthy[html] \/ html.t # "str"

\* ------------------------------------------------------------------------
\* server.js: the save branch of POST /convert, and node's posix path
\* functions as it calls them. A path is a string: a sequence of characters
\* ------------------------------------------------------------------------

\* process.env.OUTPUT_DIR || '/output'
OUTPUT_DIR == <<"/", "o", "u", "t", "p", "u", "t">>

Segments == Seq(Seq(STRING))

\* one more character in front of a path already split at its slashes
PushChar[c \in STRING, rest \in Segments] ==
    IF c = "/" THEN << <<>> >> \o rest
    ELSE << <<c>> \o rest[1] >> \o Tail(rest)

\* s.split('/')
SplitSlash[s \in Seq(STRING)] ==
    IF s = <<>> THEN << <<>> >> ELSE PushChar[Head(s), SplitSlash[Tail(s)]]

\* segs.join('/')
JoinSlash[segs \in Segments] ==
    IF segs = <<>> THEN <<>>
    ELSE IF Len(segs) = 1 THEN segs[1]
    ELSE segs[1] \o <<"/">> \o JoinSlash[Tail(segs)]

sDot    == <<".">>
sDotDot == <<".", ".">>

\* path's normalizeString: empty and '.' segments dropped, '..' taking the
\* segment before it, or kept where there is none and the path is relative
NormSegs[segs \in Segments, acc \in Segments, allowAboveRoot \in BOOLEAN] ==
    IF segs = <<>> THEN acc
    ELSE IF Head(segs) = <<>> \/ Head(segs) = sDot
         THEN NormSegs[Tail(segs), acc, allowAboveRoot]
    ELSE IF Head(segs) = sDotDot
         THEN IF acc # <<>> /\ acc[Len(acc)] # sDotDot
              THEN NormSegs[Tail(segs), SubSeq(acc, 1, Len(acc) - 1), allowAboveRoot]
              ELSE IF allowAboveRoot
                   THEN NormSegs[Tail(segs), Append(acc, sDotDot), allowAboveRoot]
                   ELSE NormSegs[Tail(segs), acc, allowAboveRoot]
    ELSE NormSegs[Tail(segs), Append(acc, Head(segs)), allowAboveRoot]

\* what path.normalize returns once the segments are resolved to `body`
NormalizedFrom[p \in Seq(STRING), body \in Seq(STRING)] ==
    IF body = <<>>
    THEN IF p[1] = "/" THEN <<"/">>
         ELSE IF p[Len(p)] = "/" THEN <<".", "/">> ELSE sDot
    ELSE (IF p[1] = "/" THEN <<"/">> ELSE <<>>)
         \o body
         \o (IF p[Len(p)] = "/" THEN <<"/">> ELSE <<>>)

\* path.normalize(p) of a string
normalize[p \in Seq(STRING)] ==
    IF p = <<>> THEN sDot
    ELSE NormalizedFrom[p, JoinSlash[NormSegs[SplitSlash[p], <<>>, p[1] # "/"]]]

\* s.replace(/^(\.\.(\/|\\|$))+/, ''): the leading '..' units taken off, each
\* followed by a slash, a backslash or the end
stripLeadingDotDots[s \in Seq(STRING)] ==
    IF Len(s) >= 2 /\ SubSeq(s, 1, 2) = sDotDot
    THEN IF Len(s) = 2 THEN <<>>
         ELSE IF s[3] \in {"/", "\\"} THEN stripLeadingDotDots[SubSeq(s, 4, Len(s))]
         ELSE s
    ELSE s

\* path.join(a, b) of two strings: the non-empty ones joined by a slash, normalized
join[a \in Seq(STRING), b \in Seq(STRING)] ==
    IF a = <<>> /\ b = <<>> THEN sDot
    ELSE IF b = <<>> THEN normalize[a]
    ELSE IF a = <<>> THEN normalize[b]
    ELSE normalize[a \o <<"/">> \o b]

\* path.normalize(outPathRel).replace(...); path's functions throw a TypeError
\* on an argument that is no string
safeRel[outPathRel \in JsValue] ==
    IF outPathRel.t = "str" THEN Str(stripLeadingDotDots[normalize[outPathRel.s]]) ELSE TypeError

\* path.join(OUTPUT_DIR, name)
joinOutputDir[name \in JsValue] ==
    IF name.t = "str" THEN Str(join[OUTPUT_DIR, name.s]) ELSE TypeError

\* `output-${Date.now()}.${ext}`, at the time 1
sOutputPdf == <<"o", "u", "t", "p", "u", "t", "-", "1", ".", "p", "d", "f">>
sOutputPng == <<"o", "u", "t", "p", "u", "t", "-", "1", ".", "p", "n", "g">>

\* const filename = options.filename ? options.filename : `output-${Date.now()}.${ext}`
filenameOf(options) ==
    IF Truthy[options.filename] THEN options.filename
    ELSE IF Truthy[options.png] THEN Str(sOutputPng) ELSE Str(sOutputPdf)

\* const saveToDisk = !!body.save
saveToDisk(body) == Truthy[body.save]

\* const outPathRel = body.outPath || null
outPathRel(body) == OrElse[body.outPath, Null]

\* finalPath of the save branch, a TypeError where path throws one
finalPath(body) ==
    IF Truthy[outPathRel(body)]
    THEN IF safeRel[outPathRel(body)] = TypeError THEN TypeError
         ELSE joinOutputDir[safeRel[outPathRel(body)]]
    ELSE joinOutputDir[filenameOf(convertOptions(body.options))]

\* ------------------------------------------------------------------------
\* One /convert request against a backend that loads, measures and emits
\* without failing: the option handling and the fit computation
\* ------------------------------------------------------------------------

VARIABLES
    fPc,        \* where the request is: received, rendering, measured, emitting, returned, thrown, responded
    fBody,      \* req.body: [html, options]
    fOpts,      \* options after Object.assign
    fContent,   \* contentSize as measured
    fScale,     \* the values the local `scale` took: computed, overridden, final
    fEmitted,   \* what the backend was asked to emit
    fContext,   \* contextOptions as handed to b.newContext
    fResult,    \* what renderHtmlToBuffer returned
    fStatus     \* HTTP status of the response, 0 before it

fitVars == <<fPc, fBody, fOpts, fContent, fScale, fEmitted, fContext, fResult, fStatus>>

\* the engine and the renders in flight (render.js, server.js start and stop)
VARIABLES
    browser,    \* render.js `let browser`: 0 while undefined or null, else the engine's id
    launches,   \* chromium.launch() calls made so far
    engines,    \* engines launched so far; the latest has this id
    sessions,   \* contexts created so far; the latest has this id
    started,    \* renderHtmlToBuffer calls made so far
    mainPc,     \* server.js main: boot, launch, listening, crashed
    mainB,      \* the engine initBrowser returned to main, 0 before
    rq          \* the renders, by slot

lifeVars == <<browser, launches, engines, sessions, started, mainPc, mainB, rq>>

\* one saving /convert request (server.js, the save branch)
VARIABLES
    sPc,        \* where the handler is: received, rendering, rendered, writing, responded
    sBody,      \* req.body: save, outPath, options
    sPath,      \* the path handed to fs.writeFile, Undef while none was
    sStatus     \* the status of the response, 0 before

saveVars == <<sPc, sBody, sPath, sStatus>>

\* the gate in front of the routes (auth.js, rateLimit.js, server.js middleware)
VARIABLES
    now,                \* Date.now(), in ms
    counters,           \* rateLimit.js `counters`: id -> { windowStart, count }
    apiKeySet,          \* auth.js `apiKeySet`
    apiKeysFileExists,  \* auth.js `apiKeysFileExists`
    apiKeyEnv,          \* config.js API_KEY_ENV: process.env.API_KEY || null
    keysFile,           \* the keys file on disk: its lines, or that it is missing
    loadPc,             \* loadApiKeysFromFile: idle, reading (before readFile reads), read
    loadTxt,            \* what readFile read
    sync,               \* the file against the loads: initial; changed since the latest
                        \* load began; reloading; reloaded; failed (the read did)
    admittedAt,         \* per id, the times of its latest admissions
    retryAt,            \* per id, the time its latest 429 said the window resets, -1 if none
    resp                \* the latest request and its response

gateVars ==
    <<now, counters, apiKeySet, apiKeysFileExists, apiKeyEnv, keysFile, loadPc, loadTxt,
      sync, admittedAt, retryAt, resp>>

vars == <<fitVars, lifeVars, saveVars, gateVars>>

sK1 == <<"k", "1">>
sK2 == <<"k", "2">>
sIp == <<"i", "p">>

\* the ids the limiter meets: the keys sent, and the client address
Ids == {sK1, sK2, sIp}

\* counters.get(id) of an id never seen
NoCounter == [windowStart |-> 0, count |-> 0]

NoHeaders == [authorization |-> Undef, xApiKey |-> Undef]

NoResponse ==
    [path |-> "none", headers |-> NoHeaders, html |-> Undef, id |-> <<>>, at |-> 0,
     status |-> 0, reached |-> "none", remaining |-> 0, resetMs |-> 0, owed |-> FALSE]

GateIdle ==
    /\ now = 0
    /\ counters = [i \in Ids |-> NoCounter]
    /\ apiKeySet = {}
    /\ apiKeysFileExists = FALSE
    /\ apiKeyEnv = Null
    /\ keysFile = [exists |-> FALSE, lines |-> <<>>]
    /\ loadPc = "idle"
    /\ loadTxt = <<>>
    /\ sync = "initial"
    /\ admittedAt = [i \in Ids |-> <<>>]
    /\ retryAt = [i \in Ids |-> -1]
    /\ resp = NoResponse

\* the render slots: a slot is taken by one renderHtmlToBuffer call at a time
Slots == {"r1", "r2"}

\* renderHtmlToBuffer is called at most this many times in a behaviour
MaxRenders == 3

\* a slot before its call
IdleRender ==
    [pc            |-> "idle",          \* the await the call is suspended at
     opts          |-> defaultOptions,  \* its options
     b             |-> 0,               \* const b: the engine initBrowser returned
     context       |-> 0,               \* const context: its id, 0 before
     page          |-> 0,               \* const page: its context's id, 0 before
     err           |-> "none",          \* what the try block threw
     out           |-> "none",          \* how the call ended: returned, or what it threw
     pageCloses    |-> 0,               \* page.close() calls
     contextCloses |-> 0,               \* context.close() calls
     resize        |-> "none",          \* how page.setViewportSize ended: done, failed
     conn          |-> "open"]          \* the connection of its request

LifeIdle ==
    /\ browser = 0
    /\ launches = 0
    /\ engines = 0
    /\ sessions = 0
    /\ started = 0
    /\ mainPc = "boot"
    /\ mainB = 0
    /\ rq = [r \in Slots |-> IdleRender]

\* ------------------------------------------------------------------------
\* One /convert request with a valid html, a backend that does not fail and
\* a file system that may: the save branch
\* ------------------------------------------------------------------------

SaveFlagInputs == {Undef, Bool(TRUE)}

OutPathInputs ==
    {Undef,
     Str(<<>>),
     Str(<<"a", "/", "b">>),
     Str(<<".", ".", "/", "x">>),
     Str(<<".", ".", "/", ".", ".", "/", "e", "/", "x">>),
     Str(<<"/", "e", "/", "x">>),
     Str(<<"a", "/", ".", ".", "/", ".", ".", "/", "x">>),
     Str(<<".", ".">>),
     Str(<<".", ".", "\\", "x">>),
     Str(<<".", ".", ".", "/", "x">>),
     Str(<<".", "/">>),
     NumInt(5)}

SaveFilenameInputs ==
    {Undef,
     Str(<<"f">>),
     Str(<<".", ".", "/", "x">>),
     Str(<<".", ".", "/", ".", ".", "/", "e", "/", "x">>),
     Str(<<"/", "e", "/", "x">>),
     Str(<<"a", "/", ".", ".", "/", ".", ".", "/", "x">>),
     Str(<<".", ".">>),
     NumInt(5)}

SaveBodyInputs ==
    [save    : SaveFlagInputs,
     outPath : OutPathInputs,
     options : [format : {Undef}, orientation : {Undef}, margin : {Undef}, single : {Undef},
                scale : {Undef}, png : {Undef, Bool(TRUE)}, dpi : {Undef},
                filename : SaveFilenameInputs]]

NoSaveBody ==
    [save |-> Undef, outPath |-> Undef, options |-> [k \in OptionKeys |-> Undef]]

SaveIdle ==
    /\ sPc = "none"
    /\ sBody = NoSaveBody
    /\ sPath = Undef
    /\ sStatus = 0

\* the handler up to the call of renderHtmlToBuffer
SaveReceive ==
    /\ sPc = "received"
    /\ sPc' = "rendering"
    /\ UNCHANGED <<sBody, sPath, sStatus>>
    /\ UNCHANGED <<fitVars, lifeVars, gateVars>>

\* renderHtmlToBuffer returns the bytes
SaveRendered ==
    /\ sPc = "rendering"
    /\ sPc' = "rendered"
    /\ UNCHANGED <<sBody, sPath, sStatus>>
    /\ UNCHANGED <<fitVars, lifeVars, gateVars>>

\* from the render to fs.writeFile(finalPath, buffer); without save the bytes
\* are sent; a TypeError of path.normalize or path.join goes to catch (err)
SavePersist ==
    /\ sPc = "rendered"
    /\ IF ~saveToDisk(sBody)
       THEN /\ sStatus' = 200
            /\ sPc' = "responded"
            /\ UNCHANGED sPath
       ELSE IF finalPath(sBody) = TypeError
       THEN /\ sStatus' = 500
            /\ sPc' = "responded"
            /\ UNCHANGED sPath
       ELSE /\ sPath' = finalPath(sBody)
            /\ sPc' = "writing"
            /\ UNCHANGED sStatus
    /\ UNCHANGED sBody
    /\ UNCHANGED <<fitVars, lifeVars, gateVars>>

\* await fs.writeFile(finalPath, buffer): res.json(...), or catch (err) -> 500
SaveWritten ==
    /\ sPc = "writing"
    /\ sStatus' \in {200, 500}
    /\ sPc' = "responded"
    /\ UNCHANGED <<sBody, sPath>>
    /\ UNCHANGED <<fitVars, lifeVars, gateVars>>

sHtml == <<"<", "p", ">">>

HtmlInputs == {Undef, Str(<<>>), NumInt(5), Str(sHtml)}

FormatInputs ==
    {Undef, Str(<<"a", "5">>), Str(<<"L", "e", "t", "t", "e", "r">>), Str(sLEGAL),
     Str(<<"B", "5">>), NumInt(123)}

OrientationInputs == {Undef, Str(sLandscape), Str(<<"s", "i", "d", "e">>)}

MarginInputs ==
    {Undef, Str(<<"1", "c", "m">>), Str(<<"1", "i", "n">>), Str(<<"1", "2", "0", "m", "m">>),
     Str(<<"a", "b", "c">>), NumInt(5), Bool(TRUE)}

SingleInputs == {Undef, Bool(TRUE)}

ScaleInputs ==
    {Undef, Null, Num[1, 2], NumInt(5), NumInt(0), Str(<<"1">>), Str(<<"a", "b", "c">>),
     Bool(TRUE)}

PngInputs == {Undef, Bool(TRUE)}

DpiInputs == {Undef, Str(<<"a", "b", "c">>)}

FilenameInputs == {Undef}

ContentWidths  == {1, 800, 100000}
ContentHeights == {1, 600, 100000}

BodyInputs ==
    [html    : HtmlInputs,
     options : [format : FormatInputs, orientation : OrientationInputs,
                margin : MarginInputs, single : SingleInputs, scale : ScaleInputs,
                png : PngInputs, dpi : DpiInputs, filename : FilenameInputs]]

NoOptions  == [k \in OptionKeys |-> Undef]
NoContent  == [width |-> 0, height |-> 0]
NoScale    == [computed |-> NaN, overridden |-> NaN, final |-> NaN]
NoEmission ==
    [kind |-> "none", scale |-> NaN, format |-> <<>>, landscape |-> FALSE,
     margin |-> Undef, width |-> 0, height |-> 0, fullPage |-> FALSE]
NoContext  == [deviceScaleFactor |-> Undef, viewport |-> [width |-> 0, height |-> 0]]
NoResult   ==
    [scale |-> NaN, contentSize |-> NoContent, paper |-> Undef, orientation |-> Undef]

FitInit ==
    /\ fPc = "received"
    /\ fBody \in BodyInputs
    /\ fOpts = NoOptions
    /\ fContent = NoContent
    /\ fScale = NoScale
    /\ fEmitted = NoEmission
    /\ fContext = NoContext
    /\ fResult = NoResult
    /\ fStatus = 0
    /\ LifeIdle
    /\ SaveIdle
    /\ GateIdle

\* the handler up to the call of renderHtmlToBuffer
ConvertReceive ==
    /\ fPc = "received"
    /\ IF htmlRejected(fBody.html)
       THEN /\ fStatus' = 400
            /\ fPc' = "responded"
            /\ UNCHANGED <<fOpts, fContext>>
       ELSE /\ fOpts' = convertOptions(fBody.options)
            /\ fContext' = contextOptions(convertOptions(fBody.options))
            /\ fPc' = "rendering"
            /\ UNCHANGED fStatus
    /\ UNCHANGED <<fBody, fContent, fScale, fEmitted, fResult>>
    /\ UNCHANGED <<lifeVars, saveVars, gateVars>>

\* renderHtmlToBuffer up to the return of page.evaluate: contentSize
RenderMeasure ==
    /\ fPc = "rendering"
    /\ \E w \in ContentWidths, h \in ContentHeights :
          fContent' = [width |-> w, height |-> h]
    /\ fPc' = "measured"
    /\ UNCHANGED <<fBody, fOpts, fScale, fEmitted, fContext, fResult, fStatus>>
    /\ UNCHANGED <<lifeVars, saveVars, gateVars>>

\* from the measurement to the emission call; a TypeError leaves through finally
RenderFit ==
    /\ fPc = "measured"
    /\ IF fitThrows(fOpts)
       THEN /\ fPc' = "thrown"
            /\ UNCHANGED <<fScale, fEmitted>>
       ELSE /\ fScale' = scaleSteps(fOpts, fContent)
            /\ fEmitted' = emissionOf(fOpts, fContent)
            /\ fPc' = "emitting"
    /\ UNCHANGED <<fBody, fOpts, fContent, fContext, fResult, fStatus>>
    /\ UNCHANGED <<lifeVars, saveVars, gateVars>>

\* the backend's bytes arrive: return { buffer, scale, contentSize, paper, orientation }
RenderReturn ==
    /\ fPc = "emitting"
    /\ fResult' = resultOf(fOpts, fContent)
    /\ fPc' = "returned"
    /\ UNCHANGED <<fBody, fOpts, fContent, fScale, fEmitted, fContext, fStatus>>
    /\ UNCHANGED <<lifeVars, saveVars, gateVars>>

\* a handler that answers every render with an error
ConvertRespondError ==
    /\ fPc \in {"returned", "thrown"}
    /\ fStatus' = 500
    /\ fPc' = "responded"
    /\ UNCHANGED <<fBody, fOpts, fContent, fScale, fEmitted, fContext, fResult>>
    /\ UNCHANGED <<lifeVars, saveVars, gateVars>>

\* the handler after the render: the bytes or the JSON answer, or catch (err) -> 500
ConvertRespond ==
    /\ fPc \in {"returned", "thrown"}
    /\ fStatus' = IF fPc = "returned" THEN 200 ELSE 500
    /\ fPc' = "responded"
    /\ UNCHANGED <<fBody, fOpts, fContent, fScale, fEmitted, fContext, fResult>>
    /\ UNCHANGED <<lifeVars, saveVars, gateVars>>

FitNext == ConvertReceive \/ RenderMeasure \/ RenderFit \/ RenderReturn \/ ConvertRespond

SpecFit == FitInit /\ [][FitNext]_vars

\* the fit variables while no request is fitted
FitIdle ==
    /\ fPc = "none"
    /\ fBody = [html |-> Undef, options |-> NoOptions]
    /\ fOpts = NoOptions
    /\ fContent = NoContent
    /\ fScale = NoScale
    /\ fEmitted = NoEmission
    /\ fContext = NoContext
    /\ fResult = NoResult
    /\ fStatus = 0

\* ------------------------------------------------------------------------
\* One /convert request over the layout options: papers, orientations,
\* margins in every unit, densities
\* ------------------------------------------------------------------------

LayoutFormatInputs ==
    {Undef, Str(<<"A", "4">>), Str(<<"a", "5">>), Str(<<"L", "e", "t", "t", "e", "r">>), Str(<<"L", "E", "G", "A", "L">>)}

LayoutOrientationInputs == {Undef, Str(sLandscape), Str(sPortrait)}

LayoutMarginInputs ==
    {Undef, Str(<<"1", "2", "0", "m", "m">>), Str(<<"1", ".", "5", "m", "m">>), Str(<<"1", "c", "m">>), Str(<<"2", ".", "5", "c", "m">>), Str(<<"1", "i", "n">>), Str(<<"7">>),
     NumInt(5), NumInt(0), Str(<<"a", "b", "c">>), Str(<<"m", "m">>), Str(<<"x", "i", "n">>),
     Str(<<"5", "0", "0", "m", "m">>), Str(<<"-", "5", "m", "m">>), NumInt(0 - 20),
     Str(<<"2", "0", "p", "x">>)}

LayoutScaleInputs == {Undef, Num[1, 2]}

LayoutDpiInputs ==
    {Undef, Str(<<"a", "b", "c">>), Bool(TRUE), NumInt(0), NumInt(0 - 5), NumInt(150), Str(<<"3", "0", "0">>)}

LayoutBodyInputs ==
    [html    : {Str(sHtml)},
     options : [format : LayoutFormatInputs, orientation : LayoutOrientationInputs,
                margin : LayoutMarginInputs, single : SingleInputs,
                scale : LayoutScaleInputs, png : PngInputs, dpi : LayoutDpiInputs,
                filename : FilenameInputs]]

LayoutInit ==
    /\ fPc = "received"
    /\ fBody \in LayoutBodyInputs
    /\ fOpts = NoOptions
    /\ fContent = NoContent
    /\ fScale = NoScale
    /\ fEmitted = NoEmission
    /\ fContext = NoContext
    /\ fResult = NoResult
    /\ fStatus = 0
    /\ LifeIdle
    /\ SaveIdle
    /\ GateIdle

SpecLayout == LayoutInit /\ [][FitNext]_vars

SaveInit ==
    /\ sPc = "received"
    /\ sBody \in SaveBodyInputs
    /\ sPath = Undef
    /\ sStatus = 0
    /\ LifeIdle
    /\ FitIdle
    /\ GateIdle

SaveNext == SaveReceive \/ SaveRendered \/ SavePersist \/ SaveWritten

SpecSave == SaveInit /\ [][SaveNext]_vars

\* ------------------------------------------------------------------------
\* src/render.js: initBrowser and renderHtmlToBuffer, await by await, against
\* a backend whose every operation may fail; server.js: the start
\* ------------------------------------------------------------------------

Init == LifeIdle /\ FitIdle /\ SaveIdle /\ GateIdle

\* the options of the renders: a PDF with the defaults, a single-page PNG,
\* and a format that is no string
RenderInputs ==
    {defaultOptions,
     [defaultOptions EXCEPT !.png = Bool(TRUE), !.single = Bool(TRUE)],
     [defaultOptions EXCEPT !.format = NumInt(123)]}

\* renderHtmlToBuffer(html, o) is called: initBrowser runs up to its await
StartRender(r, o) ==
    /\ rq[r].pc \in {"idle", "done"}
    /\ started < MaxRenders
    /\ started' = started + 1
    /\ IF browser = 0
       THEN /\ launches' = launches + 1
            /\ rq' = [rq EXCEPT ![r] = [IdleRender EXCEPT !.pc = "launch", !.opts = o]]
       ELSE /\ rq' = [rq EXCEPT ![r] =
                        [IdleRender EXCEPT !.pc = "newContext", !.opts = o, !.b = browser]]
            /\ UNCHANGED launches
    /\ UNCHANGED <<browser, engines, sessions, mainPc, mainB>>
    /\ UNCHANGED <<fitVars, saveVars, gateVars>>

\* POST /convert reaches the render: the server is listening
ConvertRequest(r) ==
    /\ mainPc = "listening"
    /\ \E o \in RenderInputs : StartRender(r, o)

\* the export is called by a client of the module
CallRender(r) == \E o \in RenderInputs : StartRender(r, o)

\* the try block is left with error e ("none": by return): finally calls page.close()
Finally(r, e) ==
    rq' = [rq EXCEPT ![r].err = e, ![r].pc = "page.close", ![r].pageCloses = @ + 1]

\* the call ends: it returns, or throws `how`
Ends(r, how) == rq' = [rq EXCEPT ![r].out = how, ![r].pc = "done"]

\* await chromium.launch() in a render's initBrowser
RenderLaunchDone(r) ==
    /\ rq[r].pc = "launch"
    /\ \/ /\ engines' = engines + 1
          /\ browser' = engines + 1
          /\ rq' = [rq EXCEPT ![r].b = engines + 1, ![r].pc = "newContext"]
       \/ /\ Ends(r, "launch")
          /\ UNCHANGED <<browser, engines>>
    /\ UNCHANGED <<launches, sessions, started, mainPc, mainB>>
    /\ UNCHANGED <<fitVars, saveVars, gateVars>>

\* a render that takes the context of the engine's first session when there is one
NewContextDoneShared(r) ==
    /\ rq[r].pc = "newContext"
    /\ \/ /\ sessions' = IntMax(1, sessions)
          /\ rq' = [rq EXCEPT ![r].context = 1, ![r].pc = "newPage"]
       \/ /\ Ends(r, "newContext")
          /\ UNCHANGED sessions
    /\ UNCHANGED <<browser, launches, engines, started, mainPc, mainB>>
    /\ UNCHANGED <<fitVars, saveVars, gateVars>>

\* await b.newContext(contextOptions)
NewContextDone(r) ==
    /\ rq[r].pc = "newContext"
    /\ \/ /\ sessions' = sessions + 1
          /\ rq' = [rq EXCEPT ![r].context = sessions + 1, ![r].pc = "newPage"]
       \/ /\ Ends(r, "newContext")
          /\ UNCHANGED sessions
    /\ UNCHANGED <<browser, launches, engines, started, mainPc, mainB>>
    /\ UNCHANGED <<fitVars, saveVars, gateVars>>

\* await context.newPage(), outside the try block
NewPageDone(r) ==
    /\ rq[r].pc = "newPage"
    /\ \/ rq' = [rq EXCEPT ![r].page = rq[r].context, ![r].pc = "setContent"]
       \/ Ends(r, "newPage")
    /\ UNCHANGED <<browser, launches, engines, sessions, started, mainPc, mainB>>
    /\ UNCHANGED <<fitVars, saveVars, gateVars>>

\* a render that measures as soon as the content is set, without the delay
SetContentDoneUnsettled(r) ==
    /\ rq[r].pc = "setContent"
    /\ \/ rq' = [rq EXCEPT ![r].pc = "evaluate"]
       \/ Finally(r, "LoadTimeout")
       \/ Finally(r, "load")
    /\ UNCHANGED <<browser, launches, engines, sessions, started, mainPc, mainB>>
    /\ UNCHANGED <<fitVars, saveVars, gateVars>>

\* await page.setContent(html, { waitUntil: 'networkidle', timeout: 60_000 })
SetContentDone(r) ==
    /\ rq[r].pc = "setContent"
    /\ \/ rq' = [rq EXCEPT ![r].pc = "settle"]
       \/ Finally(r, "LoadTimeout")
       \/ Finally(r, "load")
    /\ UNCHANGED <<browser, launches, engines, sessions, started, mainPc, mainB>>
    /\ UNCHANGED <<fitVars, saveVars, gateVars>>

\* await new Promise(r => setTimeout(r, 100))
SettleDone(r) ==
    /\ rq[r].pc = "settle"
    /\ rq' = [rq EXCEPT ![r].pc = "evaluate"]
    /\ UNCHANGED <<browser, launches, engines, sessions, started, mainPc, mainB>>
    /\ UNCHANGED <<fitVars, saveVars, gateVars>>

\* await page.evaluate(...), then the fit up to the emission call
EvaluateDone(r) ==
    /\ rq[r].pc = "evaluate"
    /\ \/ IF fitThrows(rq[r].opts) THEN Finally(r, "TypeError")
          ELSE IF isPng(rq[r].opts) THEN rq' = [rq EXCEPT ![r].pc = "setViewportSize"]
          ELSE rq' = [rq EXCEPT ![r].pc = "pdf"]
       \/ Finally(r, "measure")
    /\ UNCHANGED <<browser, launches, engines, sessions, started, mainPc, mainB>>
    /\ UNCHANGED <<fitVars, saveVars, gateVars>>

\* a resize whose failure is not caught
SetViewportSizeDoneUncaught(r) ==
    /\ rq[r].pc = "setViewportSize"
    /\ \/ rq' = [rq EXCEPT ![r].pc = "screenshot", ![r].resize = "done"]
       \/ rq' = [rq EXCEPT ![r].err = "resize", ![r].pc = "page.close",
                           ![r].pageCloses = @ + 1, ![r].resize = "failed"]
    /\ UNCHANGED <<browser, launches, engines, sessions, started, mainPc, mainB>>
    /\ UNCHANGED <<fitVars, saveVars, gateVars>>

\* try { await page.setViewportSize(...) } catch (e) { }
SetViewportSizeDone(r) ==
    /\ rq[r].pc = "setViewportSize"
    /\ \/ rq' = [rq EXCEPT ![r].pc = "screenshot", ![r].resize = "done"]
       \/ rq' = [rq EXCEPT ![r].pc = "screenshot", ![r].resize = "failed"]
    /\ UNCHANGED <<browser, launches, engines, sessions, started, mainPc, mainB>>
    /\ UNCHANGED <<fitVars, saveVars, gateVars>>

\* buffer = await page.screenshot(...) or await page.pdf(pdfOptions), then return
EmitDone(r) ==
    /\ rq[r].pc \in {"screenshot", "pdf"}
    /\ \/ Finally(r, "none")
       \/ Finally(r, "emit")
    /\ UNCHANGED <<browser, launches, engines, sessions, started, mainPc, mainB>>
    /\ UNCHANGED <<fitVars, saveVars, gateVars>>

\* finally: await page.close()
PageCloseDone(r) ==
    /\ rq[r].pc = "page.close"
    /\ \/ rq' = [rq EXCEPT ![r].pc = "context.close", ![r].contextCloses = @ + 1]
       \/ Ends(r, "page.close")
    /\ UNCHANGED <<browser, launches, engines, sessions, started, mainPc, mainB>>
    /\ UNCHANGED <<fitVars, saveVars, gateVars>>

\* finally: await context.close(), then the return or the rethrow
ContextCloseDone(r) ==
    /\ rq[r].pc = "context.close"
    /\ \/ Ends(r, IF rq[r].err = "none" THEN "returned" ELSE rq[r].err)
       \/ Ends(r, "context.close")
    /\ UNCHANGED <<browser, launches, engines, sessions, started, mainPc, mainB>>
    /\ UNCHANGED <<fitVars, saveVars, gateVars>>

\* a start that listens without waiting for the engine
MainInitBrowserUnawaited ==
    /\ mainPc = "boot"
    /\ mainPc' = "listening"
    /\ UNCHANGED <<browser, launches, engines, sessions, started, mainB, rq>>
    /\ UNCHANGED <<fitVars, saveVars, gateVars>>

\* server.js: await initBrowser() before the app is set up
MainInitBrowser ==
    /\ mainPc = "boot"
    /\ IF browser = 0
       THEN /\ launches' = launches + 1
            /\ mainPc' = "launch"
            /\ UNCHANGED mainB
       ELSE /\ mainB' = browser
            /\ mainPc' = "listening"
            /\ UNCHANGED launches
    /\ UNCHANGED <<browser, engines, sessions, started, rq>>
    /\ UNCHANGED <<fitVars, saveVars, gateVars>>

\* await chromium.launch() in main's initBrowser; then app.listen(PORT)
MainLaunchDone ==
    /\ mainPc = "launch"
    /\ \/ /\ engines' = engines + 1
          /\ browser' = engines + 1
          /\ mainB' = engines + 1
          /\ mainPc' = "listening"
       \/ /\ mainPc' = "crashed"
          /\ UNCHANGED <<browser, engines, mainB>>
    /\ UNCHANGED <<launches, sessions, started, rq>>
    /\ UNCHANGED <<fitVars, saveVars, gateVars>>

\* a render's steps after its call
RenderStep(r) ==
    \/ NewContextDone(r)
    \/ NewPageDone(r)
    \/ SetContentDone(r)
    \/ SettleDone(r)
    \/ EvaluateDone(r)
    \/ SetViewportSizeDone(r)
    \/ EmitDone(r)
    \/ PageCloseDone(r)
    \/ ContextCloseDone(r)

\* the server: requests are served once main has its engine and listens
Next ==
    \/ MainInitBrowser
    \/ MainLaunchDone
    \/ \E r \in Slots : ConvertRequest(r) \/ RenderStep(r)

Spec == Init /\ [][Next]_vars

\* the module: its exports are called in any order, by main and by the slots
NextModule ==
    \/ MainInitBrowser
    \/ MainLaunchDone
    \/ \E r \in Slots : CallRender(r) \/ RenderLaunchDone(r) \/ RenderStep(r)

SpecModule == Init /\ [][NextModule]_vars

\* ------------------------------------------------------------------------
\* server.js: the shutdown handler. server.close(callback) stops the server
\* from accepting connections and calls back once every connection has ended
\* (net.Server 'close'); a handler goes on after its client has gone
\* ------------------------------------------------------------------------

\* the request in slot r is being served
InFlight(r) == rq[r].pc \notin {"idle", "done"}

\* no connection is open: every request in flight has lost its client
Drained == \A r \in Slots : InFlight(r) => rq[r].conn = "closed"

\* process.on('SIGTERM' / 'SIGINT'): shutdown(signal) calls server.close(...)
ShutdownSignal ==
    /\ mainPc = "listening"
    /\ mainPc' = "server.close"
    /\ UNCHANGED <<browser, launches, engines, sessions, started, mainB, rq>>
    /\ UNCHANGED <<fitVars, saveVars, gateVars>>

\* the client of a request in flight closes its connection; the handler and
\* its render go on
ClientGone(r) ==
    /\ mainPc \in {"listening", "server.close"}
    /\ InFlight(r)
    /\ rq[r].conn = "open"
    /\ rq' = [rq EXCEPT ![r].conn = "closed"]
    /\ UNCHANGED <<browser, launches, engines, sessions, started, mainPc, mainB>>
    /\ UNCHANGED <<fitVars, saveVars, gateVars>>

\* the callback of server.close: closeBrowser() up to await browser.close()
ServerClosed ==
    /\ mainPc = "server.close"
    /\ Drained
    /\ mainPc' = IF browser # 0 THEN "browser.close" ELSE "exited"
    /\ UNCHANGED <<browser, launches, engines, sessions, started, mainB, rq>>
    /\ UNCHANGED <<fitVars, saveVars, gateVars>>

\* await browser.close() resolves: browser = null, process.exit(0); or it
\* rejects and the rejection ends the process
BrowserCloseDone ==
    /\ mainPc = "browser.close"
    /\ \/ browser' = 0 /\ mainPc' = "exited"
       \/ mainPc' = "crashed" /\ UNCHANGED browser
    /\ UNCHANGED <<launches, engines, sessions, started, mainB, rq>>
    /\ UNCHANGED <<fitVars, saveVars, gateVars>>

\* the process runs: handlers take their steps until it exits
ServeStep(r) ==
    /\ mainPc \in {"listening", "server.close", "browser.close"}
    /\ (ConvertRequest(r) \/ RenderStep(r))

\* the server from its start to its exit
ShutdownNext ==
    \/ MainInitBrowser
    \/ MainLaunchDone
    \/ ShutdownSignal
    \/ ServerClosed
    \/ BrowserCloseDone
    \/ \E r \in Slots : ServeStep(r) \/ ClientGone(r)

SpecShutdown == Init /\ [][ShutdownNext]_vars

\* ------------------------------------------------------------------------
\* src/auth.js, src/rateLimit.js and the middleware of server.js: every
\* request to every route passes validateAuth, then isRateLimitedFor
\* ------------------------------------------------------------------------

\* RATE_LIMIT_WINDOW_MS and RATE_LIMIT_MAX as the environment sets them
RATE_LIMIT_WINDOW_MS == 2
RATE_LIMIT_MAX == 2

\* the clock stops here
MaxTime == 3

LowerOf[c \in STRING] ==
    CASE c = "A" -> "a" [] c = "B" -> "b" [] c = "E" -> "e" [] c = "I" -> "i"
      [] c = "K" -> "k" [] c = "P" -> "p" [] c = "R" -> "r" [] c = "S" -> "s"
      [] OTHER   -> c

\* s.toLowerCase()
toLowerCase[s \in Seq(STRING)] == [i \in 1..Len(s) |-> LowerOf[s[i]]]

sBearer == <<"b", "e", "a", "r", "e", "r", " ">>

\* s.startsWith(prefix)
startsWith[s \in Seq(STRING), prefix \in Seq(STRING)] ==
    Len(s) >= Len(prefix) /\ SubSeq(s, 1, Len(prefix)) = prefix

Headers == [authorization : JsValue, xApiKey : JsValue]

\* validateAuth: the key the request provides, from Authorization: Bearer or
\* else from x-api-key, trimmed; null when neither is there
provided[h \in Headers] ==
    IF Truthy[h.authorization] /\ startsWith[toLowerCase[h.authorization.s], sBearer]
    THEN Str(Trim[SubSeq(h.authorization.s, 8, Len(h.authorization.s))])
    ELSE IF Truthy[h.xApiKey] THEN Str(Trim[h.xApiKey.s])
    ELSE Null

\* every request counts as authorised
validateAuthOpen(h) == [valid |-> TRUE, authRequired |-> FALSE, provided |-> provided[h]]

\* a validation that tries API_KEY before the keys of the file
validateAuthEnvFirst(h) ==
    IF Truthy[apiKeyEnv]
    THEN [valid        |-> Truthy[provided[h]] /\ provided[h] = apiKeyEnv,
          authRequired |-> TRUE,
          provided     |-> provided[h]]
    ELSE IF apiKeysFileExists /\ Cardinality(apiKeySet) > 0
    THEN [valid        |-> Truthy[provided[h]] /\ provided[h].s \in apiKeySet,
          authRequired |-> TRUE,
          provided     |-> provided[h]]
    ELSE [valid |-> TRUE, authRequired |-> FALSE, provided |-> provided[h]]

\* validateAuth(req)
validateAuth(h) ==
    IF apiKeysFileExists /\ Cardinality(apiKeySet) > 0
    THEN [valid        |-> Truthy[provided[h]] /\ provided[h].s \in apiKeySet,
          authRequired |-> TRUE,
          provided     |-> provided[h]]
    ELSE IF Truthy[apiKeyEnv]
    THEN [valid        |-> Truthy[provided[h]] /\ provided[h] = apiKeyEnv,
          authRequired |-> TRUE,
          provided     |-> provided[h]]
    ELSE [valid |-> TRUE, authRequired |-> FALSE, provided |-> provided[h]]

DropComments[ls \in Seq(Seq(STRING))] ==
    IF ls = <<>> THEN {}
    ELSE IF Trim[Head(ls)] = <<>> \/ Head(Trim[Head(ls)]) = "#" THEN DropComments[Tail(ls)]
    ELSE {Trim[Head(ls)]} \cup DropComments[Tail(ls)]

\* loadApiKeysFromFile: the set built from the lines of the text
keysOf[lines \in Seq(Seq(STRING))] == DropComments[lines]

\* const id = provided || (req.ip || req.connection.remoteAddress || 'unknown')
idOf(h, ip) == IF Truthy[provided[h]] THEN provided[h].s ELSE ip

\* isRateLimitedFor: no record of the id, or its window is over
windowOver(id) ==
    \/ counters[id].count = 0
    \/ now - counters[id].windowStart > RATE_LIMIT_WINDOW_MS

\* every id counted in one record
countersAfterShared(id) ==
    [i \in Ids |-> IF windowOver(id) THEN [windowStart |-> now, count |-> 1]
                   ELSE [counters[id] EXCEPT !.count = @ + 1]]

\* a limiter whose rejected requests start the window anew
countersAfterRestarting(id) ==
    [counters EXCEPT ![id] = IF windowOver(id) THEN [windowStart |-> now, count |-> 1]
                             ELSE IF @.count + 1 > RATE_LIMIT_MAX
                             THEN [windowStart |-> now, count |-> @.count + 1]
                             ELSE [@ EXCEPT !.count = @ + 1]]

\* isRateLimitedFor: `counters` after the call
countersAfter(id) ==
    [counters EXCEPT ![id] = IF windowOver(id) THEN [windowStart |-> now, count |-> 1]
                             ELSE [@ EXCEPT !.count = @ + 1]]

\* one request more than RATE_LIMIT_MAX let through
isRateLimitedForLoose(id) ==
    IF windowOver(id)
    THEN [limited |-> FALSE, remaining |-> RATE_LIMIT_MAX - 1, resetMs |-> RATE_LIMIT_WINDOW_MS]
    ELSE [limited   |-> counters[id].count + 1 > RATE_LIMIT_MAX + 1,
          remaining |-> IntMax(0, RATE_LIMIT_MAX - (counters[id].count + 1)),
          resetMs   |-> RATE_LIMIT_WINDOW_MS - (now - counters[id].windowStart)]

\* isRateLimitedFor(id): what it returns
isRateLimitedFor(id) ==
    IF windowOver(id)
    THEN [limited |-> FALSE, remaining |-> RATE_LIMIT_MAX - 1, resetMs |-> RATE_LIMIT_WINDOW_MS]
    ELSE [limited   |-> counters[id].count + 1 > RATE_LIMIT_MAX,
          remaining |-> IF counters[id].count + 1 > RATE_LIMIT_MAX THEN 0
                        ELSE IntMax(0, RATE_LIMIT_MAX - (counters[id].count + 1)),
          resetMs   |-> RATE_LIMIT_WINDOW_MS - (now - counters[id].windowStart)]

\* the latest RATE_LIMIT_MAX + 1 admissions of an id, with one at `now` added
admittedNow(id) ==
    IF Len(admittedAt[id]) > RATE_LIMIT_MAX
    THEN Append(Tail(admittedAt[id]), now)
    ELSE Append(admittedAt[id], now)

\* where a request let through by the middleware ends: the route's answer, or
\* the renderer (status 0: its answer is the render's)
routed(path, html) ==
    IF path = "/health" THEN [status |-> 200, reached |-> "health"]
    ELSE IF htmlRejected(html) THEN [status |-> 400, reached |-> "handler"]
    ELSE [status |-> 0, reached |-> "renderer"]

\* the request as the response record keeps it
asked(path, h, html) ==
    [NoResponse EXCEPT !.path = path, !.headers = h, !.html = html, !.at = now]

\* the headers requests come with: none; Bearer k1; bearer k2 with a trailing
\* blank; x-api-key k1 beside a Basic authorization; Bearer and no key
HeaderInputs ==
    {NoHeaders,
     [authorization |-> Str(<<"B", "e", "a", "r", "e", "r", " ", "k", "1">>), xApiKey |-> Undef],
     [authorization |-> Str(<<"b", "e", "a", "r", "e", "r", " ", "k", "2", " ">>),
      xApiKey |-> Undef],
     [authorization |-> Str(<<"B", "a", "s", "i", "c", " ", "k", "2">>),
      xApiKey |-> Str(<<" ", "k", "1">>)],
     [authorization |-> Str(<<"B", "e", "a", "r", "e", "r", " ">>), xApiKey |-> Undef]}

\* the request is let through by isRateLimitedFor, whose answer is rl
Admitted(path, h, html, id, rl) ==
    /\ resp' = [asked(path, h, html) EXCEPT
                  !.id = id,
                  !.status = routed(path, html).status,
                  !.reached = routed(path, html).reached,
                  !.remaining = rl.remaining,
                  !.resetMs = rl.resetMs]
    /\ admittedAt' = [admittedAt EXCEPT ![id] = admittedNow(id)]
    /\ retryAt' = [retryAt EXCEPT ![id] = -1]

\* the request is answered 429 with the reset time of rl
Limited(path, h, html, id, rl) ==
    /\ resp' = [asked(path, h, html) EXCEPT
                  !.id = id,
                  !.status = 429,
                  !.reached = "middleware",
                  !.remaining = rl.remaining,
                  !.resetMs = rl.resetMs,
                  !.owed = retryAt[id] >= 0 /\ now >= retryAt[id]]
    /\ retryAt' = [retryAt EXCEPT ![id] = IF @ >= 0 THEN @ ELSE now + rl.resetMs]
    /\ UNCHANGED admittedAt

\* a middleware that counts the request before it looks at its key
HttpRequestCountedFirst(path, h, html) ==
    /\ mainPc = "listening"
    /\ \E id \in {idOf(h, sIp)} :
          /\ counters' = countersAfter(id)
          /\ IF ~validateAuth(h).valid
             THEN /\ resp' = [asked(path, h, html) EXCEPT !.status = 401, !.reached = "middleware"]
                  /\ UNCHANGED <<admittedAt, retryAt>>
             ELSE \E rl \in {isRateLimitedFor(id)} :
                    IF rl.limited
                    THEN Limited(path, h, html, id, rl)
                    ELSE Admitted(path, h, html, id, rl)
    /\ UNCHANGED <<now, apiKeySet, apiKeysFileExists, apiKeyEnv, keysFile, loadPc, loadTxt, sync>>
    /\ UNCHANGED <<fitVars, lifeVars, saveVars>>

\* a request passes the middleware and reaches its route, up to the first await
HttpRequest(path, h, html) ==
    /\ mainPc = "listening"
    /\ IF ~validateAuth(h).valid
       THEN /\ resp' = [asked(path, h, html) EXCEPT !.status = 401, !.reached = "middleware"]
            /\ UNCHANGED <<counters, admittedAt, retryAt>>
       ELSE \E id \in {idOf(h, sIp)} :
              /\ counters' = countersAfter(id)
              /\ \E rl \in {isRateLimitedFor(id)} :
                    IF rl.limited
                    THEN Limited(path, h, html, id, rl)
                    ELSE Admitted(path, h, html, id, rl)
    /\ UNCHANGED <<now, apiKeySet, apiKeysFileExists, apiKeyEnv, keysFile, loadPc, loadTxt, sync>>
    /\ UNCHANGED <<fitVars, lifeVars, saveVars>>

\* the requests a client sends: to /health, and to /convert with html
RequestInputs ==
    {<<"/health", Undef>>, <<"/convert", Str(<<"<", "p", ">">>)>>}

\* the id of the request has been counted at most cap times in its window
CountedAtMost(h, cap) == validateAuth(h).valid => counters[idOf(h, sIp)].count <= cap

\* a millisecond passes
Tick ==
    /\ now < MaxTime
    /\ now' = now + 1
    /\ UNCHANGED <<counters, apiKeySet, apiKeysFileExists, apiKeyEnv, keysFile, loadPc,
                   loadTxt, sync, admittedAt, retryAt, resp>>
    /\ UNCHANGED <<fitVars, lifeVars, saveVars>>

\* the keys files: missing; k1; k1 and k2 among blanks and a comment; k2;
\* comments only
KeysFileInputs ==
    {[exists |-> FALSE, lines |-> <<>>],
     [exists |-> TRUE, lines |-> <<sK1>>],
     [exists |-> TRUE, lines |-> <<<<"#", " ", "k">>, <<" ", "k", "1", " ">>, <<>>, sK2>>],
     [exists |-> TRUE, lines |-> <<sK2, <<" ">>>>],
     [exists |-> TRUE, lines |-> <<<<"#", "k", "1">>, <<>>>>]}

\* the operator edits, replaces or removes the keys file
EditKeysFile ==
    /\ keysFile' \in KeysFileInputs \ {keysFile}
    /\ sync' = "changed"
    /\ UNCHANGED <<now, counters, apiKeySet, apiKeysFileExists, apiKeyEnv, loadPc, loadTxt,
                   admittedAt, retryAt, resp>>
    /\ UNCHANGED <<fitVars, lifeVars, saveVars>>

\* setInterval(loadApiKeysFromFile, API_KEYS_RELOAD_MS) fires while no load is
\* under way: loadApiKeysFromFile up to its await
ReloadStart ==
    /\ loadPc = "idle"
    /\ IF ~keysFile.exists
       THEN /\ apiKeySet' = {}
            /\ apiKeysFileExists' = FALSE
            /\ sync' = IF sync = "changed" THEN "reloaded" ELSE sync
            /\ UNCHANGED loadPc
       ELSE /\ apiKeysFileExists' = TRUE
            /\ loadPc' = "reading"
            /\ sync' = IF sync \in {"changed", "failed"} THEN "reloading" ELSE sync
            /\ UNCHANGED apiKeySet
    /\ UNCHANGED <<now, counters, apiKeyEnv, keysFile, loadTxt, admittedAt, retryAt, resp>>
    /\ UNCHANGED <<fitVars, lifeVars, saveVars>>

\* fs.readFile reads the file as it is now, or fails: catch (e) empties the set
ReloadRead ==
    /\ loadPc = "reading"
    /\ \/ /\ keysFile.exists
          /\ loadTxt' = keysFile.lines
          /\ loadPc' = "read"
          /\ UNCHANGED <<apiKeySet, apiKeysFileExists, sync>>
       \/ /\ apiKeySet' = {}
          /\ apiKeysFileExists' = FALSE
          /\ loadPc' = "idle"
          /\ sync' = IF sync \in {"reloading", "reloaded"} THEN "failed" ELSE sync
          /\ UNCHANGED loadTxt
    /\ UNCHANGED <<now, counters, apiKeyEnv, keysFile, admittedAt, retryAt, resp>>
    /\ UNCHANGED <<fitVars, lifeVars, saveVars>>

\* loadApiKeysFromFile after its await: the lines are read into the new set
ReloadDone ==
    /\ loadPc = "read"
    /\ apiKeySet' = keysOf[loadTxt]
    /\ loadPc' = "idle"
    /\ loadTxt' = <<>>
    /\ sync' = IF sync = "reloading" THEN "reloaded" ELSE sync
    /\ UNCHANGED <<now, counters, apiKeysFileExists, apiKeyEnv, keysFile, admittedAt, retryAt,
                   resp>>
    /\ UNCHANGED <<fitVars, lifeVars, saveVars>>

\* the process starts: auth.js is loaded and has called loadApiKeysFromFile
GateStart ==
    /\ now = 0
    /\ counters = [i \in Ids |-> NoCounter]
    /\ apiKeyEnv \in {Null, Str(sK2)}
    /\ keysFile \in KeysFileInputs
    /\ apiKeySet = {}
    /\ apiKeysFileExists = keysFile.exists
    /\ loadPc = IF keysFile.exists THEN "reading" ELSE "idle"
    /\ loadTxt = <<>>
    /\ sync = "initial"
    /\ admittedAt = [i \in Ids |-> <<>>]
    /\ retryAt = [i \in Ids |-> -1]
    /\ resp = NoResponse

GateInit ==
    /\ GateStart
    /\ LifeIdle
    /\ FitIdle
    /\ SaveIdle

\* a request more is not sent by an id counted this often above the limit
MaxOverLimit == 1

\* the headers of the requests the limiter is run with: the address, and k1
LimitHeaderInputs ==
    {NoHeaders,
     [authorization |-> Str(<<"B", "e", "a", "r", "e", "r", " ", "k", "1">>), xApiKey |-> Undef]}

\* no keys file and no API_KEY: every request is let through to the limiter
LimitInit == GateInit /\ ~keysFile.exists /\ apiKeyEnv = Null

\* a request from one of the two ids
LimitRequest ==
    \E rqst \in RequestInputs, h \in LimitHeaderInputs :
        /\ CountedAtMost(h, RATE_LIMIT_MAX + MaxOverLimit)
        /\ HttpRequest(rqst[1], h, rqst[2])

LimitNext == MainInitBrowser \/ MainLaunchDone \/ LimitRequest \/ Tick

\* the limiter over time, for two ids
SpecLimit == LimitInit /\ [][LimitNext]_vars

\* a request is not sent by an id already counted more often than this
MaxCounted == 0

\* a request with any of the headers
AuthRequest ==
    \E rqst \in RequestInputs, h \in HeaderInputs :
        /\ CountedAtMost(h, MaxCounted)
        /\ HttpRequest(rqst[1], h, rqst[2])

AuthNext ==
    \/ MainInitBrowser
    \/ MainLaunchDone
    \/ AuthRequest
    \/ EditKeysFile
    \/ ReloadStart
    \/ ReloadRead
    \/ ReloadDone

\* the keys, their file and its reloads, at one instant of the limiter
SpecAuth == GateInit /\ [][AuthNext]_vars

\* ------------------------------------------------------------------------
\* One POST /convert from the wire to its answer: the middleware, then the
\* handler and a render that does not fail (src/test-convert.js is its client)
\* ------------------------------------------------------------------------

ServeBodyInputs ==
    [html    : {Str(sHtml)},
     options : [format : {Undef, Str(sA4)}, orientation : {Undef}, margin : {Undef},
                single : {Undef}, scale : {Undef}, png : PngInputs, dpi : {Undef},
                filename : {Undef, Str(<<"t", "e", "s", "t", ".", "p", "d", "f">>)}]]

\* the client has its request ready; the server starts
ServeInit ==
    /\ GateStart
    /\ LifeIdle
    /\ SaveIdle
    /\ fPc = "sent"
    /\ fBody \in ServeBodyInputs
    /\ fOpts = NoOptions
    /\ fContent = NoContent
    /\ fScale = NoScale
    /\ fEmitted = NoEmission
    /\ fContext = NoContext
    /\ fResult = NoResult
    /\ fStatus = 0

\* the request, or one sent before it with the same body, passes the middleware
ServeGate ==
    /\ fPc = "sent"
    /\ \E h \in HeaderInputs :
          /\ CountedAtMost(h, RATE_LIMIT_MAX)
          /\ HttpRequest("/convert", h, fBody.html)

\* next(): the handler of the request just admitted starts
ServeEnter ==
    /\ fPc = "sent"
    /\ resp.reached = "renderer"
    /\ fPc' = "received"
    /\ UNCHANGED <<fBody, fOpts, fContent, fScale, fEmitted, fContext, fResult, fStatus>>
    /\ UNCHANGED <<lifeVars, saveVars, gateVars>>

ServeNext ==
    \/ MainInitBrowser
    \/ MainLaunchDone
    \/ ReloadRead
    \/ ReloadDone
    \/ ServeGate
    \/ ServeEnter
    \/ FitNext

SpecServe == ServeInit /\ [][ServeNext]_vars

\* ------------------------------------------------------------------------
\* Properties of the fit (checked under SpecFit)
\* ------------------------------------------------------------------------

\* the request reached the emission: the backend was handed its options
Emitted == fEmitted.kind # "none"

\* x clamped into [0.1, 2.0]
Clamped(x) ==
    IF Lt[x, Num[1, 10]] THEN Num[1, 10] ELSE IF Lt[NumInt(2), x] THEN NumInt(2) ELSE x

InScaleRange(x) == x.t = "num" /\ Leq[Num[1, 10], x] /\ Leq[x, NumInt(2)]

\* options.scale is absent or null: no manual scale
NoManualScale == fOpts.scale = Null

\* C1: every scale handed to the backend, and every scale returned in the
\* result, lies in [0.1, 2.0]
C1_ScaleInRange ==
    /\ Emitted => InScaleRange(fEmitted.scale)
    /\ fResult # NoResult => InScaleRange(fResult.scale) /\ fResult.scale = fEmitted.scale

\* a manual scale of 5 on a 100000 px wide box came back as 2
C1_Witness ==
    /\ fPc = "returned"
    /\ fBody.options.scale = NumInt(5)
    /\ fContent.width = 100000
    /\ fResult.scale = NumInt(2)

\* the scaled content box fits the available print area in both dimensions
FitsOnePage(scale) ==
    /\ Leq[Mul[NumInt(fContent.width), scale], availableWidthPx(fOpts)]
    /\ Leq[Mul[NumInt(fContent.height), scale], availableHeightPx(fOpts)]

\* C5 as stated: in single mode without a manual scale the final scale makes
\* the whole content fit on one page, for every content box
C5_SinglePageFits ==
    (Emitted /\ Truthy[fOpts.single] /\ NoManualScale) => FitsOnePage(fEmitted.scale)

\* C5 as amended: in single mode without a manual scale the final scale makes
\* the content fit in both dimensions whenever the smaller of the width-fit and
\* the height-fit scale is at least 0.1; when it is smaller, the final scale is
\* the lower clamp 0.1
C5_SinglePageFitsUnlessClamped ==
    (Emitted /\ Truthy[fOpts.single] /\ NoManualScale) =>
        IF Leq[Num[1, 10], MathMin[widthFit(fOpts, fContent), heightFit(fOpts, fContent)]]
        THEN FitsOnePage(fEmitted.scale)
        ELSE fEmitted.scale = Num[1, 10]

\* single mode, the height is the binding side and no clamp applies
C5_Witness ==
    /\ Emitted /\ Truthy[fOpts.single] /\ NoManualScale
    /\ Lt[Num[1, 10], fEmitted.scale] /\ Lt[fEmitted.scale, NumInt(2)]
    /\ Lt[fEmitted.scale, widthFit(fOpts, fContent)]
    /\ FitsOnePage(fEmitted.scale)

\* C6: a numeric options.scale always ends as that value clamped into
\* [0.1, 2.0]
C6_ManualScaleClamped ==
    (Emitted /\ fBody.options.scale.t = "num") => fEmitted.scale = Clamped(fBody.options.scale)

\* C7: without single and without a manual scale, the final scale is
\* max(1, (paperWidthMm - 2 marginMm) * 96/25.4) / contentWidth clamped into
\* [0.1, 2.0], whatever the content height; 800x600 on A4 portrait with a 10mm
\* margin gives 190 * 96/25.4 / 800
C7_WidthFitScale ==
    (Emitted /\ ~Truthy[fOpts.single] /\ NoManualScale) =>
        /\ fEmitted.scale =
              Clamped(Div[MathMax[NumInt(1),
                                  Mul[Sub[NumInt(paperWidthMm(fOpts)),
                                          Mul[NumInt(2), marginMm(fOpts)]],
                                      Num[960, 254]]],
                          NumInt(fContent.width)])
        /\ \A h \in ContentHeights :
              finalScale(fOpts, [width |-> fContent.width, height |-> h]) = fEmitted.scale
        /\ ( /\ paperOf(fOpts) = Str(sA4) /\ ~isLandscape(fOpts)
             /\ marginMm(fOpts) = NumInt(10)
             /\ fContent = [width |-> 800, height |-> 600] )
           => fEmitted.scale = Num[190 * 960, 254 * 800]

\* the 800x600 box on A4 portrait with the default margin
C7_Witness ==
    /\ Emitted /\ ~Truthy[fOpts.single] /\ NoManualScale
    /\ paperOf(fOpts) = Str(sA4) /\ ~isLandscape(fOpts)
    /\ marginMm(fOpts) = NumInt(10)
    /\ fContent = [width |-> 800, height |-> 600]
    /\ fEmitted.scale = Num[114, 127]

\* C8: in single mode without a manual scale, the scale before the final
\* clamp is the smaller of the width-fit and the height-fit scale
C8_SingleScaleIsMin ==
    (Emitted /\ Truthy[fOpts.single] /\ NoManualScale) =>
        /\ Leq[fScale.overridden, Div[availableWidthPx(fOpts), NumInt(fContent.width)]]
        /\ Leq[fScale.overridden, Div[availableHeightPx(fOpts), NumInt(fContent.height)]]
        /\ fScale.overridden \in {Div[availableWidthPx(fOpts), NumInt(fContent.width)],
                                  Div[availableHeightPx(fOpts), NumInt(fContent.height)]}

\* single mode where the two candidates differ and the height-fit is chosen
C8_Witness ==
    /\ Emitted /\ Truthy[fOpts.single] /\ NoManualScale
    /\ fScale.overridden = Div[availableHeightPx(fOpts), NumInt(fContent.height)]
    /\ Lt[fScale.overridden, Div[availableWidthPx(fOpts), NumInt(fContent.width)]]

\* C9: a request with a valid html string is answered 200 whatever its
\* option values are
C9_NoOptionValueFails ==
    (fPc = "responded" /\ ~htmlRejected(fBody.html)) => fStatus = 200

\* options.scale is null, absent, a boolean or a string that is no number
NonNumericScale ==
    \/ fBody.options.scale.t \in {"null", "undefined", "bool"}
    \/ fBody.options.scale.t = "str" /\ Number[fBody.options.scale].t = "nan"

\* C10: with options.scale null, absent or non-numeric the final scale is the
\* computed one, clamped into [0.1, 2.0]
C10_NonNumericScaleFallsBack ==
    (Emitted /\ NonNumericScale) => fEmitted.scale = Clamped(fScale.computed)

\* the dimensions the paper names stand for, in mm
NamedPaperMm(name) ==
    CASE name = sA4     -> [w |-> 210, h |-> 297]
      [] name = sA5     -> [w |-> 148, h |-> 210]
      [] name = sLETTER -> [w |-> 216, h |-> 279]
      [] name = sLEGAL  -> [w |-> 216, h |-> 356]

\* the paper the request's format stands for: the recognised name it spells
\* in any case, else A4
PaperMeant ==
    IF fOpts.format.t = "str" /\ toUpperCase[fOpts.format.s] \in PAPER_SIZES
    THEN toUpperCase[fOpts.format.s]
    ELSE sA4

\* the request's options with the paper it means spelled out
WithPaperMeant == [fOpts EXCEPT !.format = Str(PaperMeant)]

\* C11: an unrecognised paper name gives the paper dimensions and the backend
\* format of A4, and a recognised name in any case gives those of that name,
\* in the fit and in the PDF options alike
C11_UnknownPaperIsA4 ==
    (Emitted /\ fOpts.format.t = "str") =>
        /\ paperMm[paperOf(fOpts)] = NamedPaperMm(PaperMeant)
        /\ paperWidthMm(fOpts) = paperWidthMm(WithPaperMeant)
        /\ paperHeightMm(fOpts) = paperHeightMm(WithPaperMeant)
        /\ fEmitted.scale = finalScale(WithPaperMeant, fContent)
        /\ fEmitted.kind = "pdf" => fEmitted.format = PaperMeant
        /\ fEmitted = emissionOf(WithPaperMeant, fContent)

\* a B5 request emitted as a PDF of format A4, fitted to 190 mm of width
C11_Witness ==
    /\ Emitted /\ fEmitted.kind = "pdf"
    /\ fBody.options.format = Str(<<"B", "5">>)
    /\ fEmitted.format = sA4
    /\ fOpts.margin = Str(s10mm) /\ ~isLandscape(fOpts)
    /\ availableWidthPx(fOpts) = Num[190 * 960, 254]

\* ------------------------------------------------------------------------
\* Properties of the save branch (checked under SpecSave)
\* ------------------------------------------------------------------------

\* p is OUTPUT_DIR or a path below it
InsideOutputDir(p) ==
    \/ p = OUTPUT_DIR
    \/ /\ Len(p) > Len(OUTPUT_DIR)
       /\ SubSeq(p, 1, Len(OUTPUT_DIR) + 1) = OUTPUT_DIR \o <<"/">>
       /\ sDotDot \notin {SplitSlash[p][i] : i \in 1..Len(SplitSlash[p])}

\* C12: whatever outPath and options.filename are, the path handed to
\* fs.writeFile lies inside OUTPUT_DIR
C12_SavedInsideOutputDir == sPath # Undef => InsideOutputDir(sPath.s)

\* the part of C12 that the code keeps: a path taken from outPath lies inside
\* OUTPUT_DIR
SavedByOutPathInside ==
    (sPath # Undef /\ Truthy[outPathRel(sBody)]) => InsideOutputDir(sPath.s)

\* ------------------------------------------------------------------------
\* Properties of the session and of the engine (checked under Spec and SpecModule)
\* ------------------------------------------------------------------------

\* the call in slot r has ended and had acquired its context and its page
EndedWithSession(r) == rq[r].pc = "done" /\ rq[r].page # 0

\* C2: a call that acquired a context and a page has closed each exactly once
\* when it returns or throws
C2_SessionClosedOnce ==
    \A r \in Slots :
        EndedWithSession(r) => rq[r].pageCloses = 1 /\ rq[r].contextCloses = 1

\* C3: while a launch is in progress no second launch is started, and every
\* caller holds the one engine
C3_SingleFlightLaunch ==
    /\ Cardinality({r \in Slots : rq[r].pc = "launch"})
          + (IF mainPc = "launch" THEN 1 ELSE 0) <= 1
    /\ \A r \in Slots : rq[r].b # 0 => rq[r].b = browser
    /\ mainB # 0 => mainB = browser

\* C4: a call that acquired its session ends with its primary outcome: the
\* result, or the error of the load, the measurement or the emission
C4_TeardownNeverMasks ==
    \A r \in Slots :
        EndedWithSession(r) =>
            rq[r].out = (IF rq[r].err = "none" THEN "returned" ELSE rq[r].err)

\* how a call ends when the backend rejected one of its operations
BackendFailures ==
    {"LoadTimeout", "load", "measure", "emit", "newContext", "newPage", "page.close",
     "context.close"}

\* C21: a call that failed on a timed-out load or a throwing backend has closed
\* the session it had acquired, and the engine it ran on is still the one in
\* `browser`
C21_FailedRequestTornDown ==
    \A r \in Slots :
        (rq[r].pc = "done" /\ rq[r].out \in BackendFailures /\ rq[r].context # 0) =>
            /\ rq[r].contextCloses = 1
            /\ rq[r].page # 0 => rq[r].pageCloses = 1
            /\ rq[r].b = browser /\ browser # 0

\* the part of C21 the finally block gives: a call that ends with the error of
\* its load, measurement or emission has closed its page and its context
LoadFailureTornDown ==
    \A r \in Slots :
        (rq[r].pc = "done" /\ rq[r].out \in {"LoadTimeout", "load", "measure", "emit"}) =>
            rq[r].pageCloses = 1 /\ rq[r].contextCloses = 1 /\ rq[r].b = browser

\* a step of one call changes no other call, and no call changes the engine
FailureLeavesOthers ==
    [][/\ \A r \in Slots :
             rq'[r] # rq[r] => \A q \in Slots \ {r} : rq'[q] = rq[q]
       /\ mainPc = "listening" => browser' = browser]_vars

\* after a timed-out load in one slot, a call in the other returned on the same
\* engine
ReturnedBesideTimeout ==
    /\ rq["r1"].pc = "done" /\ rq["r1"].out = "LoadTimeout"
    /\ rq["r2"].pc = "done" /\ rq["r2"].out = "returned"
    /\ rq["r2"].b = rq["r1"].b /\ rq["r2"].context > rq["r1"].context

\* C22: the engine is launched once, by the start; every request served
\* afterwards, successful or failing, runs on that engine, and `browser` holds
\* it throughout
C22_OneEngineForAllRequests ==
    /\ launches <= 1 /\ engines <= 1
    /\ mainPc = "listening" => (launches = 1 /\ engines = 1 /\ browser = 1 /\ mainB = 1)
    /\ \A r \in Slots : rq[r].pc # "idle" => rq[r].b = 1

\* MaxRenders requests have been served, one returned and one failed in its
\* emission, on the engine of the start
C22_Witness ==
    /\ started = MaxRenders /\ launches = 1 /\ browser = mainB
    /\ rq["r1"].pc = "done" /\ rq["r1"].out = "returned" /\ rq["r1"].b = browser
    /\ rq["r2"].pc = "done" /\ rq["r2"].out = "emit" /\ rq["r2"].b = browser

\* the call in slot r is loading, measuring or emitting
Rendering(r) ==
    rq[r].pc \in {"setContent", "settle", "evaluate", "setViewportSize", "screenshot", "pdf"}

\* C23: the engine is closed by the shutdown handler only, after the server
\* has stopped accepting; while browser.close() runs and after it no request
\* is loading, measuring or emitting
C23_EngineClosedWhenIdle ==
    /\ browser = 0 => mainPc \in {"boot", "launch", "crashed", "exited"}
    /\ mainPc \in {"browser.close", "exited"} => \A r \in Slots : ~Rendering(r)

\* what server.close gives C23: when the engine is closed, no request whose
\* client is still connected is in flight
ConnectedRequestsFinished ==
    /\ browser = 0 => mainPc \in {"boot", "launch", "crashed", "exited"}
    /\ mainPc \in {"browser.close", "exited"} =>
          \A r \in Slots : Rendering(r) => rq[r].conn = "closed"

\* C24: the context and the page a call works on are the ones it created:
\* no two calls, running or ended, hold the same context, and the page of a
\* call belongs to its own context
C24_SessionsNeverShared ==
    /\ \A r \in Slots :
          /\ rq[r].context \in 0..sessions
          /\ rq[r].page \in {0, rq[r].context}
          /\ (rq[r].pageCloses > 0 \/ Rendering(r)) => rq[r].page # 0
          /\ rq[r].contextCloses > 0 => rq[r].context # 0
    /\ \A r \in Slots : \A q \in Slots \ {r} :
          rq[r].context # 0 => rq[q].context # rq[r].context

\* two calls are rendering at the same time, each on its own page
C24_Witness ==
    /\ rq["r1"].pc = "evaluate" /\ rq["r2"].pc = "pdf"
    /\ rq["r1"].page # 0 /\ rq["r2"].page # 0 /\ rq["r1"].page # rq["r2"].page

\* C29: a call whose viewport resize failed goes on to the capture; it ends
\* with the bytes when the capture and the teardown succeed, and never with
\* an error of the resize
C29_ResizeFailureSwallowed ==
    \A r \in Slots :
        rq[r].resize = "failed" =>
            /\ rq[r].pc \in {"screenshot", "page.close", "context.close", "done"}
            /\ rq[r].err \in {"none", "emit"}
            /\ rq[r].pc = "done" =>
                  rq[r].out \in {"returned", "emit", "page.close", "context.close"}
            /\ (rq[r].pc = "done" /\ rq[r].err = "none"
                   /\ rq[r].out \notin {"page.close", "context.close"}) =>
                  rq[r].out = "returned"

\* a PNG call returned its bytes after its resize had failed
C29_Witness ==
    \E r \in Slots :
        /\ rq[r].resize = "failed" /\ isPng(rq[r].opts)
        /\ rq[r].pc = "done" /\ rq[r].out = "returned"
        /\ rq[r].pageCloses = 1 /\ rq[r].contextCloses = 1

\* the steps of one request in the order the claim gives them: session
\* acquired, content loaded, settle delay elapsed, content measured, output
\* emitted, session closed
StepOrder ==
    <<{"newContext", "newPage"}, {"setContent"}, {"settle"}, {"evaluate"},
      {"setViewportSize", "screenshot", "pdf"}, {"page.close", "context.close"}, {"done"}>>

StepOf(pc) == CHOOSE k \in 1..Len(StepOrder) : pc \in StepOrder[k]

\* slot r moves on within the call it is serving
MovesOn(r) == rq'[r].pc # rq[r].pc /\ rq[r].pc \notin {"idle", "done"}

\* C31: within one request, the load starts with the session acquired, the
\* delay follows the load, the measurement follows the delay, the emission
\* follows the measurement, and no step is gone back to: the content is
\* measured once, and the session is closed last
C31_StepsInOrder ==
    [][\A r \in Slots : MovesOn(r) =>
          /\ StepOf(rq'[r].pc) >= StepOf(rq[r].pc)
          /\ rq'[r].pc \in {"setContent", "settle", "evaluate"}
                => StepOf(rq[r].pc) = StepOf(rq'[r].pc) - 1
          /\ rq'[r].pc = "setContent" => rq'[r].page # 0 /\ rq'[r].context # 0
          /\ rq[r].pc = "evaluate" => rq'[r].pc # "evaluate"
          /\ StepOf(rq'[r].pc) = 5 => rq[r].pc \in {"evaluate", "setViewportSize"}
          /\ rq'[r].out = "returned" => rq[r].pc = "context.close" /\ rq[r].err = "none"
      ]_vars

\* a PNG request went through every step, the resize included, and returned
C31_Witness ==
    \E r \in Slots :
        /\ rq[r].out = "returned" /\ rq[r].pc = "done"
        /\ isPng(rq[r].opts) /\ rq[r].resize = "done"
        /\ rq[r].pageCloses = 1 /\ rq[r].contextCloses = 1

\* the html of the request is missing, empty or not a string
HtmlUnusable ==
    fBody.html = Undef \/ fBody.html = Str(<<>>) \/ fBody.html.t # "str"

\* C20: a /convert request whose html is missing, empty or not a string is
\* answered 400 and never enters renderHtmlToBuffer: nothing is measured,
\* emitted or returned for it
C20_BadHtmlIs400 ==
    HtmlUnusable =>
        /\ fPc \in {"received", "responded"}
        /\ fPc = "responded" => fStatus = 400
        /\ fOpts = NoOptions /\ fContent = NoContent
        /\ fEmitted = NoEmission /\ fResult = NoResult

\* a request whose html is the number 5 has been answered 400
C20_Witness ==
    /\ fPc = "responded" /\ fStatus = 400
    /\ fBody.html = NumInt(5)
    /\ fContent = NoContent /\ fEmitted = NoEmission

\* what each margin of the layout inputs means in millimetres: the number
\* before mm, ten times the number before cm, 25.4 times the number before in,
\* the number itself without a unit, and 0 when there is no number to read
MarginMeant ==
    {<<Str(<<"1", "2", "0", "m", "m">>), NumInt(120)>>, <<Str(<<"1", ".", "5", "m", "m">>), Num[3, 2]>>,
     <<Str(<<"1", "c", "m">>), NumInt(10)>>, <<Str(<<"2", ".", "5", "c", "m">>), NumInt(25)>>,
     <<Str(<<"1", "i", "n">>), Num[254, 10]>>, <<Str(<<"7">>), NumInt(7)>>,
     <<NumInt(5), NumInt(5)>>, <<NumInt(0), NumInt(0)>>,
     <<Str(<<"a", "b", "c">>), NumInt(0)>>, <<Str(<<"m", "m">>), NumInt(0)>>, <<Str(<<"x", "i", "n">>), NumInt(0)>>}

\* C25: parseMarginToMm gives the millimetres each string or number means and
\* throws for none; the fit takes that margin from each side of the paper, 0
\* for a value without a number
C25_MarginInMillimetres ==
    \A mm \in MarginMeant :
        fBody.options.margin = mm[1] =>
            /\ OrZero[parseMarginToMm[mm[1]]] = mm[2]
            /\ parseMarginToMm[mm[1]] # TypeError
            /\ (Truthy[mm[1]] /\ fPc \in {"emitting", "returned"}) =>
                  /\ marginMm(fOpts) = mm[2]
                  /\ fScale.computed =
                        MathMin[Div[availablePx[paperWidthMm(fOpts), mm[2]], NumInt(fContent.width)],
                                IF Truthy[fOpts.single]
                                THEN Div[availablePx[paperHeightMm(fOpts), mm[2]],
                                         NumInt(fContent.height)]
                                ELSE Div[availablePx[paperWidthMm(fOpts), mm[2]],
                                         NumInt(fContent.width)]]

\* a margin of one inch on A4 portrait: 210 - 2 * 25.4 mm are left for an
\* 800 px wide box
C25_Witness ==
    /\ fPc = "returned"
    /\ fBody.options.margin = Str(<<"1", "i", "n">>)
    /\ paperOf(fOpts) = Str(sA4) /\ ~isLandscape(fOpts) /\ ~Truthy[fOpts.single]
    /\ fContent.width = 800
    /\ fScale.computed = Num[1592 * 96, 254 * 800]

\* the portrait geometry of each paper of the layout inputs, by the name sent
PortraitTable ==
    {[name |-> Str(<<"A", "4">>), w |-> 210, h |-> 297], [name |-> Str(<<"a", "5">>), w |-> 148, h |-> 210],
     [name |-> Str(<<"L", "e", "t", "t", "e", "r">>), w |-> 216, h |-> 279], [name |-> Str(<<"L", "E", "G", "A", "L">>), w |-> 216, h |-> 356]}

\* width and height exchanged
Exchanged(g) == [w |-> g.h, h |-> g.w]

\* the paper geometry the fit resolves for options o
GeometryOf(o) == [w |-> paperWidthMm(o), h |-> paperHeightMm(o)]

\* C26: for A4, A5, Letter and Legal the geometry of a landscape request is the
\* table's portrait geometry with width and height exchanged, exchanging it
\* again gives the portrait geometry, and the fit is computed on it
C26_LandscapeExchangesSides ==
    \A row \in PortraitTable :
        (fBody.options.format = row.name /\ fPc \in {"emitting", "returned"}) =>
            /\ GeometryOf([fOpts EXCEPT !.orientation = Str(sPortrait)]) = [w |-> row.w, h |-> row.h]
            /\ GeometryOf([fOpts EXCEPT !.orientation = Str(sLandscape)]) = [w |-> row.h, h |-> row.w]
            /\ Exchanged(Exchanged(GeometryOf([fOpts EXCEPT !.orientation = Str(sPortrait)])))
                  = [w |-> row.w, h |-> row.h]
            /\ Exchanged(GeometryOf([fOpts EXCEPT !.orientation = Str(sLandscape)]))
                  = GeometryOf([fOpts EXCEPT !.orientation = Str(sPortrait)])
            /\ ~Truthy[fOpts.single] =>
                  fScale.computed =
                      Div[availablePx[IF fBody.options.orientation = Str(sLandscape)
                                      THEN row.h ELSE row.w, marginMm(fOpts)],
                          NumInt(fContent.width)]
            /\ (isPng(fOpts) /\ ~Truthy[fOpts.single]) =>
                  fEmitted.height =
                      IntMax(1, MathCeil[availablePx[IF fBody.options.orientation = Str(sLandscape)
                                                     THEN row.w ELSE row.h, marginMm(fOpts)]])

\* Legal in landscape with the default margin: 356 - 20 mm are left for an
\* 800 px wide box
C26_Witness ==
    /\ fPc = "returned"
    /\ fBody.options.format = Str(<<"L", "E", "G", "A", "L">>)
    /\ fBody.options.orientation = Str(sLandscape)
    /\ fBody.options.margin = Undef /\ ~Truthy[fOpts.single]
    /\ fContent.width = 800
    /\ fScale.computed = Num[336 * 960, 254 * 800]

\* the density each dpi of the layout inputs stands for: its number when it is
\* a positive number, 96 when it is missing, no number or not positive
DpiMeant ==
    {<<Undef, 96>>, <<Str(<<"a", "b", "c">>), 96>>, <<Bool(TRUE), 96>>, <<NumInt(0), 96>>,
     <<NumInt(0 - 5), 96>>, <<NumInt(150), 150>>, <<Str(<<"3", "0", "0">>), 300>>}

\* the options of the request as a PDF at the default density
AtDefaultDensity == [fOpts EXCEPT !.dpi = NumInt(96), !.png = Bool(FALSE)]

\* the scale of the request and its print area are the ones of the same
\* request as a PDF at the default density: they are the same for every dpi
\* and output kind
ScaleIgnoresDpi ==
    fPc \in {"emitting", "returned"} =>
        /\ scaleSteps(AtDefaultDensity, fContent) = fScale
        /\ fEmitted.scale = pdfOptions(AtDefaultDensity, fContent).scale
        /\ availableWidthPx(AtDefaultDensity) = availableWidthPx(fOpts)
        /\ availableHeightPx(AtDefaultDensity) = availableHeightPx(fOpts)

\* the session of a PNG request is created with the factor of the density
\* in `meant` over 96
DensityIs(meant) ==
    \A row \in meant :
        (fBody.options.dpi = row[1] /\ isPng(fOpts) /\ fPc \notin {"received", "responded"}) =>
            fContext.deviceScaleFactor = Div[NumInt(row[2]), NumInt(96)]

\* C27: the scale and the print area do not depend on dpi or on the output
\* kind, and a dpi that is missing, no number or not positive counts as 96
C27_DpiOnlyScalesImage == ScaleIgnoresDpi /\ DensityIs(DpiMeant)

\* the part of C27 that holds for every value: the layout ignores dpi and png
LayoutIgnoresDpi == ScaleIgnoresDpi

\* the default of 96 for every dpi of the inputs but the boolean
DensityIsUnlessBoolean == DensityIs({row \in DpiMeant : row[1].t # "bool"})

\* n is max(1, ceil(x)): 1 when x is at most 1, else the integer with
\* n - 1 < x <= n
IsCeilAtLeastOne(n, x) ==
    \/ n = 1 /\ Leq[x, NumInt(1)]
    \/ n > 1 /\ Lt[NumInt(n - 1), x] /\ Leq[x, NumInt(n)]

\* C28: the viewport requested for a PNG is max(1, ceil(contentWidth * scale))
\* wide and, when single, max(1, ceil(contentHeight * scale)) high, else
\* max(1, ceil(availableHeightPx)) high; the capture is full-page exactly
\* when single
C28_PngViewport ==
    fEmitted.kind = "png" =>
        /\ IsCeilAtLeastOne(fEmitted.width, Mul[NumInt(fContent.width), fEmitted.scale])
        /\ IsCeilAtLeastOne(fEmitted.height,
                            IF fOpts.single = Bool(TRUE)
                            THEN Mul[NumInt(fContent.height), fEmitted.scale]
                            ELSE availableHeightPx(fOpts))
        /\ fEmitted.fullPage <=> fOpts.single = Bool(TRUE)

\* an 800x600 box as a PNG on A4 portrait, not single: a 719 x 1047 viewport
\* and a capture of the viewport only
C28_Witness ==
    /\ fEmitted.kind = "png" /\ ~Truthy[fOpts.single] /\ NoManualScale
    /\ fContent = [width |-> 800, height |-> 600]
    /\ fEmitted.width = 719 /\ fEmitted.height = 1047
    /\ ~fEmitted.fullPage

\* ------------------------------------------------------------------------
\* Properties of the gate (checked under SpecAuth and SpecLimit)
\* ------------------------------------------------------------------------

\* a keys file with at least one key is loaded, or API_KEY is set
AuthConfigured == (apiKeysFileExists /\ apiKeySet # {}) \/ apiKeyEnv # Null

\* the keys of the file as loaded, and API_KEY
ConfiguredKeys == apiKeySet \cup (IF apiKeyEnv # Null THEN {apiKeyEnv.s} ELSE {})

\* the request with headers h carries a configured key
CarriesConfiguredKey(h) == Truthy[provided[h]] /\ provided[h].s \in ConfiguredKeys

\* C13: while keys are configured, a request without a key or with a key that
\* is not configured is answered 401 by the middleware: it is not counted by
\* the limiter and reaches neither a route nor the renderer
C13_UnauthorizedIs401 ==
    [][(resp' # resp /\ AuthConfigured /\ ~CarriesConfiguredKey(resp'.headers))
          => (resp'.status = 401 /\ resp'.reached = "middleware" /\ counters' = counters)]_vars

\* with k1 loaded from the file, a /convert request with html and the key k2
\* was answered 401
C13_Witness ==
    /\ apiKeysFileExists /\ apiKeySet = {sK1} /\ apiKeyEnv = Null
    /\ resp.path = "/convert" /\ ~htmlRejected(resp.html)
    /\ provided[resp.headers] = Str(sK2)
    /\ resp.status = 401 /\ resp.reached = "middleware"

\* C14: GET /health is answered 200, with or without a key, also when keys
\* are configured
C14_HealthIsOpen == resp.path = "/health" => resp.status = 200

\* the admissions of an id since its window started
AdmittedInWindow(id) ==
    Cardinality({k \in 1..Len(admittedAt[id]) : admittedAt[id][k] >= counters[id].windowStart})

\* C15: in the window of an id at most RATE_LIMIT_MAX of its requests are
\* admitted; a request counted beyond that is answered 429 by the middleware
\* and reaches no route
C15_AtMostMaxPerWindow ==
    /\ \A id \in Ids : AdmittedInWindow(id) <= RATE_LIMIT_MAX
    /\ resp.status = 429 => resp.reached = "middleware"
    /\ resp.id # <<>> => (resp.status = 429 <=> counters[resp.id].count > RATE_LIMIT_MAX)

\* a /convert request with html answered 429 after RATE_LIMIT_MAX admissions
\* in the window
C15_Witness ==
    /\ resp.status = 429 /\ resp.path = "/convert" /\ ~htmlRejected(resp.html)
    /\ AdmittedInWindow(resp.id) = RATE_LIMIT_MAX
    /\ counters[resp.id].count = RATE_LIMIT_MAX + 1

\* C16: RATE_LIMIT_MAX + 1 admissions of one id never lie closer together
\* than RATE_LIMIT_WINDOW_MS: no interval of that length holds more than
\* RATE_LIMIT_MAX of them
C16_SlidingWindow ==
    \A id \in Ids :
        Len(admittedAt[id]) = RATE_LIMIT_MAX + 1 =>
            admittedAt[id][RATE_LIMIT_MAX + 1] - admittedAt[id][1] >= RATE_LIMIT_WINDOW_MS

\* C17: a request that arrives at the time a 429 of its id gave for the
\* reset, or later, is not answered 429
C17_AdmittedAfterReset == ~(resp.status = 429 /\ resp.owed)

\* what C17 leaves of the reset time: one millisecond after it the request is
\* admitted
AdmittedOnceResetPassed ==
    (resp.status = 429 /\ resp.owed) => resp.resetMs = 0

\* C18: a step changes the record of an id only in answering a request of
\* that id
C18_OtherIdsUntouched ==
    [][\A i \in Ids :
          (counters'[i] # counters[i] \/ admittedAt'[i] # admittedAt[i] \/ retryAt'[i] # retryAt[i])
              => (resp'.id = i /\ resp'.at = now)]_vars

\* k1 is over its limit while the address is admitted in its own window
C18_Witness ==
    /\ counters[sK1].count > RATE_LIMIT_MAX
    /\ counters[sIp].count = 1
    /\ resp.id = sIp /\ resp.status # 429 /\ resp.remaining = RATE_LIMIT_MAX - 1
    /\ now - counters[sK1].windowStart <= RATE_LIMIT_WINDOW_MS

\* the trimmed lines of the keys file that are neither blank nor comments
FileKeys ==
    {Trim[keysFile.lines[k]] : k \in 1..Len(keysFile.lines)}
        \ {l \in {Trim[keysFile.lines[k]] : k \in 1..Len(keysFile.lines)} :
              l = <<>> \/ Head(l) = "#"}

\* validateAuth accepts the keys of the file as it is now, and nothing else
AcceptsFileKeys ==
    \A h \in HeaderInputs :
        validateAuth(h).valid <=> (Truthy[provided[h]] /\ provided[h].s \in FileKeys)

\* C19: once a reload begun after the latest change of the keys file has
\* completed, validateAuth accepts exactly the keys of the new file
C19_ReloadedKeysExact == (sync = "reloaded" /\ keysFile.exists) => AcceptsFileKeys

\* the part of C19 that the code keeps: it holds when the new file has a key
ReloadedKeysExactIfAny ==
    (sync = "reloaded" /\ keysFile.exists /\ FileKeys # {}) => AcceptsFileKeys

\* the margins of the layout inputs the floor is there for, and the ones
\* that leave room: larger than half a side, larger than the paper,
\* negative, not a number
MarginKinds ==
    [large      |-> {Str(<<"1", "2", "0", "m", "m">>), Str(<<"5", "0", "0", "m", "m">>)},
     negative   |-> {Str(<<"-", "5", "m", "m">>), NumInt(0 - 20)},
     unparsable |-> {Str(<<"a", "b", "c">>), Str(<<"m", "m">>), Str(<<"x", "i", "n">>)}]

\* C32: whatever the margin, once the fit has run the available width and
\* height are numbers of at least 1, so the scale computed from them is
\* positive; a margin beyond half the side leaves exactly 1
C32_AvailableAtLeastOne ==
    fPc \in {"emitting", "returned"} =>
        /\ availableWidthPx(fOpts).t = "num" /\ Leq[NumInt(1), availableWidthPx(fOpts)]
        /\ availableHeightPx(fOpts).t = "num" /\ Leq[NumInt(1), availableHeightPx(fOpts)]
        /\ Lt[NumInt(0), fScale.computed]
        /\ fOpts.margin = Str(<<"5", "0", "0", "m", "m">>) =>
              /\ availableWidthPx(fOpts) = NumInt(1)
              /\ availableHeightPx(fOpts) = NumInt(1)
        /\ fOpts.margin \in MarginKinds.negative =>
              Lt[Mul[NumInt(paperWidthMm(fOpts)), pxPerMm], availableWidthPx(fOpts)]
        /\ fOpts.margin \in MarginKinds.unparsable =>
              availableWidthPx(fOpts) = Mul[NumInt(paperWidthMm(fOpts)), pxPerMm]

\* a portrait A4 with a margin of 120mm was fitted: no width is left but
\* the floor, and 57 mm of height
C32_Witness ==
    /\ fPc = "returned"
    /\ fOpts.margin = Str(<<"1", "2", "0", "m", "m">>)
    /\ paperOf(fOpts) = Str(sA4) /\ ~isLandscape(fOpts)
    /\ availableWidthPx(fOpts) = NumInt(1)
    /\ availableHeightPx(fOpts) = Num[57 * 960, 254]
    /\ fContent.width = 800 /\ fScale.computed = Num[1, 800]

\* the margin the backend itself takes from each side for a value passed
\* to it, in millimetres: the number before mm, cm and in as lengths, and the
\* number before px or without a unit as pixels of 1/96 in
BackendMarginMm ==
    {<<Str(<<"1", ".", "5", "m", "m">>), Num[3, 2]>>, <<Str(<<"1", "c", "m">>), NumInt(10)>>,
     <<Str(<<"2", ".", "5", "c", "m">>), NumInt(25)>>, <<Str(<<"1", "i", "n">>), Num[254, 10]>>,
     <<Str(<<"2", "0", "p", "x">>), Num[20 * 254, 960]>>,
     <<Str(<<"7">>), Num[7 * 254, 960]>>, <<NumInt(5), Num[5 * 254, 960]>>}

\* the print area behind the scale is the paper less the margins of `rows`
AreaIsPaperLess(rows) ==
    (fPc \in {"emitting", "returned"} /\ fEmitted.kind = "pdf") =>
        \A row \in rows :
            fEmitted.margin = row[1] =>
                /\ availableWidthPx(fOpts) =
                      Mul[Sub[NumInt(paperWidthMm(fOpts)), Mul[NumInt(2), row[2]]], pxPerMm]
                /\ availableHeightPx(fOpts) =
                      Mul[Sub[NumInt(paperHeightMm(fOpts)), Mul[NumInt(2), row[2]]], pxPerMm]
                /\ ~Truthy[fOpts.single] =>
                      fScale.computed =
                          Div[Mul[Sub[NumInt(paperWidthMm(fOpts)), Mul[NumInt(2), row[2]]], pxPerMm],
                              NumInt(fContent.width)]

\* C33: for a document, the print area the scale is computed from is the
\* paper less the margins the backend applies for the value passed to it, for
\* margins in mm, cm, in, px and without a unit
C33_AreaMatchesBackendMargins == AreaIsPaperLess(BackendMarginMm)

\* the part of C33 that holds: margins in mm, cm and in
AreaMatchesMetricMargins ==
    AreaIsPaperLess({row \in BackendMarginMm :
                       row[1].t = "str" /\ Len(row[1].s) > 2 /\ row[1] # Str(<<"2", "0", "p", "x">>)})

\* a document was emitted with the margin "20px" passed through
PixelMarginPassedThrough ==
    /\ fPc = "returned" /\ fEmitted.kind = "pdf"
    /\ fEmitted.margin = Str(<<"2", "0", "p", "x">>)
    /\ marginMm(fOpts) = NumInt(20)

\* the result names the geometry used: its paper is one of the four, the
\* sides used are that paper's, and its orientation is landscape when they
\* were exchanged and portrait when not
ResultNamesGeometry ==
    /\ fResult.paper.t = "str"
    /\ fResult.paper.s \in {<<"A", "4">>, <<"A", "5">>, <<"L", "E", "T", "T", "E", "R">>,
                             <<"L", "E", "G", "A", "L">>}
    /\ fResult.orientation \in {Str(sLandscape), Str(sPortrait)}
    /\ GeometryOf(fOpts) =
          IF fResult.orientation = Str(sLandscape)
          THEN Exchanged(NamedPaperMm(fResult.paper.s))
          ELSE NamedPaperMm(fResult.paper.s)
    /\ fEmitted.kind = "pdf" =>
          /\ fEmitted.format = fResult.paper.s
          /\ fEmitted.landscape = (fResult.orientation = Str(sLandscape))

\* C34: the paper and orientation of every returned result name the geometry
\* the fit and the emission used
C34_ResultNamesGeometry == fPc = "returned" => ResultNamesGeometry

\* the part of C34 that holds: requests whose format spells one of the four
\* papers, or is missing, and whose orientation is missing or landscape
ResultNamesKnownGeometry ==
    (/\ fPc = "returned"
     /\ fBody.options.format.t = "str" => toUpperCase[fBody.options.format.s] = PaperMeant
     /\ fBody.options.orientation \in {Undef, Str(sLandscape), Str(sPortrait)})
        => ResultNamesGeometry

\* a result was returned that names a paper outside the four
UnknownPaperReturned ==
    /\ fPc = "returned"
    /\ fResult.paper.s \notin PAPER_SIZES
    /\ fEmitted.kind = "pdf" /\ fEmitted.format = sA4

\* keys loaded from the file are in force
FileKeysInForce == apiKeysFileExists /\ apiKeySet # {}

\* a reload ends the force of the file's keys: its read failed, or it found
\* the file without keys
ReloadDropsKeys == FileKeysInForce /\ ~FileKeysInForce' /\ loadPc' = "idle"

\* C35: after a reload that failed or found no keys, while keys of the file
\* were in force, the only requests accepted carry a key that was in force
\* or API_KEY
C35_FailedReloadStaysClosed ==
    [][ReloadDropsKeys =>
          \A h \in HeaderInputs :
              validateAuth(h).valid' =>
                  /\ Truthy[provided[h]]
                  /\ provided[h].s \in apiKeySet \/ provided[h] = apiKeyEnv]_vars

\* the part of C35 that holds: with API_KEY set, such a reload leaves
\* API_KEY as the only key accepted
FailedReloadFallsBackToEnv ==
    [][(ReloadDropsKeys /\ apiKeyEnv # Null) =>
          \A h \in HeaderInputs : validateAuth(h).valid' <=> provided[h] = apiKeyEnv]_vars

\* with k1 in the keys file and no API_KEY, a reload failed and a request
\* without any key reached the renderer
KeylessAcceptedAfterFailure ==
    /\ sync = "failed" /\ apiKeyEnv = Null
    /\ keysFile.exists /\ keysOf[keysFile.lines] = {sK1}
    /\ resp.headers = NoHeaders /\ resp.reached = "renderer"

\* the request just answered was let through by the authentication
LetThrough == resp'.path # "none" /\ resp'.status # 401

\* C36: a request answered while keys loaded from the file are in force is
\* let through exactly when its key is one of them, and a request let through
\* with API_KEY, when API_KEY is no key of the file, was answered while no
\* keys of the file were in force
C36_FileKeysOverrideEnv ==
    [][resp' # resp =>
          /\ FileKeysInForce =>
                (LetThrough <=> (/\ Truthy[provided[resp'.headers]]
                                 /\ provided[resp'.headers].s \in apiKeySet))
          /\ (/\ LetThrough /\ AuthConfigured
               /\ provided[resp'.headers] = apiKeyEnv
               /\ apiKeyEnv.s \notin apiKeySet) => ~FileKeysInForce]_vars

\* with k1 loaded from the file and API_KEY k2, a request carrying k2 has
\* been answered 401
C36_Witness ==
    /\ apiKeyEnv = Str(sK2) /\ apiKeySet = {sK1} /\ apiKeysFileExists
    /\ provided[resp.headers] = Str(sK2)
    /\ resp.status = 401 /\ resp.reached = "middleware"

\* C37: a request answered 401 leaves every counter and window start as it
\* was, and every step that changes a counter is a request that passed the
\* authentication
C37_UnauthorizedNotCounted ==
    [][/\ (resp' # resp /\ resp'.status = 401) => counters' = counters
       /\ counters' # counters => (resp'.path # "none" /\ resp'.status # 401)]_vars

\* a request with a key was answered 401 while another id had used quota
C37_Witness ==
    /\ resp.status = 401 /\ Truthy[provided[resp.headers]]
    /\ counters[provided[resp.headers].s].count = 0
    /\ \E id \in Ids : counters[id].count > 0

\* the admissions of id made at time t or later
AdmittedSince(id, t) ==
    Cardinality({k \in 1..Len(admittedAt[id]) : admittedAt[id][k] >= t})

\* the admissions of the client, whatever it sent as a key, at this instant
AdmittedAtOnce == AdmittedSince(sIp, now) + AdmittedSince(sK1, now) + AdmittedSince(sK2, now)

\* C38: the requests of the one client address that carry no configured key
\* are counted on the counter of the address, and no more than
\* RATE_LIMIT_MAX of them are admitted in a window, whatever keys they name
C38_OneCounterPerAddress ==
    /\ (resp.id # <<>> /\ ~CarriesConfiguredKey(resp.headers)) => resp.id = sIp
    /\ ~AuthConfigured => AdmittedAtOnce <= RATE_LIMIT_MAX

\* the part of C38 that holds: requests that name no key at all are counted
\* on the counter of the address
KeylessCountedOnAddress ==
    (resp.id # <<>> /\ ~Truthy[provided[resp.headers]]) =>
        /\ resp.id = sIp
        /\ AdmittedSince(sIp, counters[sIp].windowStart) <= RATE_LIMIT_MAX

\* with no key configured the client was admitted RATE_LIMIT_MAX times
\* without a key and again with the string k1, all in one instant
AdmittedUnderTwoNames ==
    /\ ~AuthConfigured
    /\ AdmittedSince(sIp, now) = RATE_LIMIT_MAX
    /\ resp.id = sK1 /\ resp.at = now /\ resp.status # 429

\* id i has been answered 429 and not been admitted since, and the window
\* that 429 was given in is over
LimitedWindowElapsed(i) == retryAt[i] >= 0 /\ now > retryAt[i]

\* C39: the first request of a limited id after its window is over is
\* admitted and starts a window of its own, and a request answered 429 adds
\* one to the count of its id and leaves the window start where it was
C39_AdmittedAfterWindow ==
    [][\A i \in Ids :
          (resp' # resp /\ resp'.id = i) =>
              /\ LimitedWindowElapsed(i) =>
                    /\ resp'.status # 429 /\ resp'.reached # "middleware"
                    /\ counters'[i] = [windowStart |-> now, count |-> 1]
              /\ resp'.status = 429 =>
                    /\ counters'[i].windowStart = counters[i].windowStart
                    /\ counters'[i].count = counters[i].count + 1
                    /\ now - counters[i].windowStart <= RATE_LIMIT_WINDOW_MS]_vars

\* an id admitted RATE_LIMIT_MAX times at time 0 has been admitted again
\* after the window, in a window that starts with that request
C39_Witness ==
    \E i \in Ids :
        /\ Len(admittedAt[i]) = RATE_LIMIT_MAX + 1
        /\ admittedAt[i][RATE_LIMIT_MAX] = 0
        /\ admittedAt[i][RATE_LIMIT_MAX + 1] = now
        /\ now > RATE_LIMIT_WINDOW_MS
        /\ counters[i] = [windowStart |-> now, count |-> 1]
        /\ resp.id = i /\ resp.status # 429 /\ resp.remaining = RATE_LIMIT_MAX - 1

\* the keys of the mode in force: those loaded from the file when there are
\* any, else API_KEY
KeysInForce ==
    IF apiKeysFileExists /\ apiKeySet # {} THEN apiKeySet
    ELSE IF apiKeyEnv # Null THEN {apiKeyEnv.s}
    ELSE {}

\* a request with headers h carries a key in force and its id has room in
\* its window
ValidAndWithinLimit(h) ==
    /\ Truthy[provided[h]] /\ provided[h].s \in KeysInForce
    /\ counters[provided[h].s].count < RATE_LIMIT_MAX

\* C30: a POST /convert with a valid key and a non-empty html, within the
\* rate limit, is handed to the renderer by the middleware, and once its
\* render has returned it is answered 200 with the result of that render
C30_ValidConvertGets200 ==
    /\ [][(resp' # resp /\ ValidAndWithinLimit(resp'.headers)
             /\ resp'.path = "/convert" /\ ~HtmlUnusable)
            => (resp'.status = 0 /\ resp'.reached = "renderer")]_vars
    /\ [](fPc = "responded" =>
            /\ fStatus = 200
            /\ fResult = resultOf(fOpts, fContent) /\ fEmitted.kind \in {"pdf", "png"}
            /\ resp.reached = "renderer")

\* the request of test-convert.js, with a key of the loaded file, was
\* answered 200 with a PDF
C30_Witness ==
    /\ fPc = "responded" /\ fStatus = 200
    /\ fBody.options.format = Str(sA4)
    /\ fBody.options.filename = Str(<<"t", "e", "s", "t", ".", "p", "d", "f">>)
    /\ apiKeySet = {sK1} /\ provided[resp.headers] = Str(sK1)
    /\ resp.path = "/convert" /\ resp.reached = "renderer"
    /\ fEmitted.kind = "pdf" /\ fResult.scale = fEmitted.scale

====
